---- MODULE Spec2Model ----
(***************************************************************************)
(* Ticket-sales analytics of judeha/capital-laughs: the two loaders, the   *)
(* feature preparer, the show / customer / booking-window aggregations of  *)
(* ShowInsights, ShowLevelAnalysis, the batch analyze_data and the         *)
(* dashboard, as operators over an in-memory table, and the load / analyse *)
(* calls as actions.                                                       *)
(*                                                                         *)
(* Strings the code inspects (file names, paths, e-mails) are sequences of *)
(* one-character strings, so endswith / in / replace / lower are computed. *)
(* Time is counted in hours: an order timestamp is an hour number, an      *)
(* event date d is the midnight hour d * 24.                               *)
(***************************************************************************)
EXTENDS Integers, Sequences, FiniteSets, TLC

VARIABLES data_folder, dir_exists, dir, loaded, df, out, snapshot, series, cache

vars == <<data_folder, dir_exists, dir, loaded, df, out, snapshot, series, cache>>

(***************************************************************************)
(* Bounds of the model.                                                    *)
(***************************************************************************)
MaxFiles == 2
MaxRows == 3
MaxSeries == 5
MaxOrders == 12

(***************************************************************************)
(* Strings.                                                                *)
(***************************************************************************)
UpperChars == <<"A","B","C","D","E","F","G","H","I","J","K","L","M",
                "N","O","P","Q","R","S","T","U","V","W","X","Y","Z">>
LowerChars == <<"a","b","c","d","e","f","g","h","i","j","k","l","m",
                "n","o","p","q","r","s","t","u","v","w","x","y","z">>

LowerChar(c) ==
    IF \E i \in 1..Len(UpperChars) : UpperChars[i] = c
    THEN LowerChars[CHOOSE i \in 1..Len(UpperChars) : UpperChars[i] = c]
    ELSE c

\* str.lower()
Lower(s) == [i \in 1..Len(s) |-> LowerChar(s[i])]

\* str.endswith(suffix)
EndsWith(s, suffix) ==
    /\ Len(s) >= Len(suffix)
    /\ SubSeq(s, Len(s) - Len(suffix) + 1, Len(s)) = suffix

\* sub in s
Contains(s, sub) ==
    \E i \in 1..(Len(s) - Len(sub) + 1) : SubSeq(s, i, i + Len(sub) - 1) = sub

\* s.replace(old, ''): every non-overlapping occurrence, left to right
RECURSIVE Replace(_, _)
Replace(s, old) ==
    IF Len(s) < Len(old) THEN s
    ELSE IF SubSeq(s, 1, Len(old)) = old
         THEN Replace(SubSeq(s, Len(old) + 1, Len(s)), old)
         ELSE <<s[1]>> \o Replace(Tail(s), old)

\* os.path.join(folder, name)
PathJoin(folder, name) == folder \o <<"/">> \o name

\* os.path.basename(path)
Basename(path) ==
    LET slashes == {i \in 1..Len(path) : path[i] = "/"}
    IN  IF slashes = {} THEN path
        ELSE SubSeq(path, (CHOOSE i \in slashes : \A j \in slashes : j <= i) + 1, Len(path))

\* os.path.splitext(name)[0]: the name without its last extension
Stem(name) ==
    LET dots == {i \in 2..Len(name) : name[i] = "."}
    IN  IF dots = {} THEN name
        ELSE SubSeq(name, 1, (CHOOSE i \in dots : \A j \in dots : j <= i) - 1)

DotCsv == <<".","c","s","v">>
Eda == <<"e","d","a">>
SrcData == <<"s","r","c","/","d","a","t","a">>
SrcEdaData == <<"s","r","c","/","e","d","a","_","d","a","t","a">>
MondayCsv == <<"M","o","n","d","a","y",".","c","s","v">>
FridayCsv == <<"F","r","i","d","a","y",".","c","s","v">>
EdaCsv == <<"e","d","a",".","c","s","v">>
EDAMondayCsv == <<"E","D","A","_","M","o","n","d","a","y",".","c","s","v">>
NotesTxt == <<"n","o","t","e","s",".","t","x","t">>
FridayCsvCsv == <<"F","r","i","d","a","y",".","c","s","v",".","c","s","v">>
Monday == <<"M","o","n","d","a","y">>
Friday == <<"F","r","i","d","a","y">>

\* the missing value of a text column (pandas NaN); no real string equals it
NaN == <<"NaN">>

(***************************************************************************)
(* Sequences and tables.                                                   *)
(***************************************************************************)
SeqsUpTo(S, n) == UNION {[1..k -> S] : k \in 0..n}

\* all orders in which the members of S can be listed
Orders(S) == {f \in [1..Cardinality(S) -> S] : \A i, j \in DOMAIN f : f[i] = f[j] => i = j}

RECURSIVE Concat(_)
Concat(ss) == IF ss = <<>> THEN <<>> ELSE Head(ss) \o Concat(Tail(ss))

RECURSIVE SumSeq(_)
SumSeq(s) == IF s = <<>> THEN 0 ELSE Head(s) + SumSeq(Tail(s))

\* A date or number field whose text no parser accepts.  The dates and amounts the
\* files hold are never negative, so a negative number stands for such a text.
Unparseable == 0 - 1

\* NaN in a numeric column
NaNNumber == 0 - 1000

\* Series.sum() of column f: NaN entries are skipped
SumCol(t, f) == SumSeq([i \in DOMAIN t |-> IF t[i][f] = NaNNumber THEN 0 ELSE t[i][f]])

(***************************************************************************)
(* Input rows.  A row of an export file: Order date (hour number), Event   *)
(* start date (day number), Event name, Buyer email ("" when the field is  *)
(* empty), Payment type, Gross sales.  Order ID is the file and the line.  *)
(***************************************************************************)
Row(order_date, event_date, event_name, email, pay, gross) ==
    [order_date |-> order_date, event_date |-> event_date, event_name |-> event_name,
     email |-> email, pay |-> pay, gross |-> gross]

Range(s) == {s[i] : i \in DOMAIN s}

\* the file `name` holding the given rows: each gets its Order ID
Stamp(name, rows) == [i \in DOMAIN rows |-> [order_id |-> <<name, i>>] @@ rows[i]]

\* the directory that holds, per file name, the rows placed in it (in order), and
\* the files of `extra` (empty unless rows are placed in them)
MkDir(placed, extra) ==
    [n \in {p[1] : p \in Range(placed)} \cup extra |->
        LET InN(p) == p[1] = n
            mine == SelectSeq(placed, InN)
        IN  Stamp(n, [i \in DOMAIN mine |-> mine[i][2]])]

Directories(Names, Payloads) ==
    {d \in {MkDir(placed, extra) : placed \in SeqsUpTo(Names \X Payloads, MaxRows),
                                   extra \in SUBSET Names} :
        Cardinality(DOMAIN d) <= MaxFiles}

(***************************************************************************)
(* Data Loader.                                                            *)
(***************************************************************************)
\* every row of a file gets the column day_of_week
Tag(rows, day_name) == [i \in DOMAIN rows |-> [day_of_week |-> day_name] @@ rows[i]]

\* pd.read_csv: an empty text field is read as NaN
read_csv(rows) ==
    [i \in DOMAIN rows |->
        [rows[i] EXCEPT !.email = IF rows[i].email = <<>> THEN NaN ELSE rows[i].email]]

\* glob.glob(os.path.join(data_folder, '*.csv')): the paths of the files whose name
\* ends in .csv and does not start with a dot; nothing when the directory is missing
GlobCsv ==
    IF dir_exists
    THEN {PathJoin(data_folder, n) : n \in {m \in DOMAIN dir : EndsWith(m, DotCsv) /\ m[1] # "."}}
    ELSE {}

\* the test ShowInsights.load_data applies to each globbed path
PathEligible(file) == EndsWith(file, DotCsv) /\ ~Contains(Lower(file), Eda)

\* the test load_csv_data applies to each listed file name
NameEligible(f) == EndsWith(f, DotCsv) /\ ~Contains(Lower(f), Eda)

\* day_name = <name>.replace('.csv', '')
DayName(filename) == Replace(filename, DotCsv)

\* the frames ShowInsights.load_data collects, for the glob order `order`
Frames(order) ==
    LET kept == SelectSeq(order, PathEligible)
    IN  [i \in DOMAIN kept |->
            Tag(read_csv(dir[Basename(kept[i])]), DayName(Basename(kept[i])))]

\* all_data of load_csv_data, for the listing order `order`
AllData(order) ==
    Concat([i \in DOMAIN order |-> Tag(dir[order[i]], DayName(order[i]))])

(***************************************************************************)
(* Feature Preparer.                                                       *)
(***************************************************************************)
\* (Event start date - Order date).days: the whole days of the difference, rounded
\* towards minus infinity as timedelta.days and Series.dt.days do
DaysBetween(event_date, order_date) == (event_date * 24 - order_date) \div 24

\* the buyer e-mail taken as it is written
CustomerIdNoLower(email) == email

\* customer_id = Buyer email lowercased; a missing e-mail stays missing
CustomerId(email) == IF email = NaN THEN NaN ELSE Lower(email)

\* pd.to_datetime(column) raises when an entry cannot be parsed as a date
to_datetime_raises(t) ==
    \E i \in DOMAIN t : t[i].order_date = Unparseable \/ t[i].event_date = Unparseable

\* pd.to_numeric(column, errors='coerce'): NaN for what is no number
to_numeric(v) == IF v = Unparseable THEN NaNNumber ELSE v

\* a preparation that keeps only the date of the order timestamp once the days are
\* computed
prepare_data_truncating(t) ==
    [i \in DOMAIN t |->
        [days_before_event |-> DaysBetween(t[i].event_date, t[i].order_date),
         order_date |-> (t[i].order_date \div 24) * 24,
         gross |-> to_numeric(t[i].gross),
         customer_id |-> CustomerId(t[i].email)] @@ t[i]]

prepare_data(t) ==
    [i \in DOMAIN t |->
        [days_before_event |-> DaysBetween(t[i].event_date, t[i].order_date),
         gross |-> to_numeric(t[i].gross),
         customer_id |-> CustomerId(t[i].email)] @@ t[i]]

(***************************************************************************)
(* State.  dir is the data directory (file name -> rows) at data_folder;   *)
(* df is the analyzer's table once loaded; out is the outcome of the last  *)
(* call: its name, the exception it raised ("" if none) and what it        *)
(* returned or printed; snapshot holds the two JSON files' contents        *)
(* (<<>> when the file is absent); series is the Series handed to the     *)
(* time-series feature layer (a metric column of the daily aggregation);   *)
(* cache holds, per function decorated with st.cache_data, the value it    *)
(* returned in this process (<<>> while it has returned none).             *)
(***************************************************************************)
NoCache == [load_show_analysis |-> <<>>, load_basic_analysis_results |-> <<>>]

NoOut == [op |-> "none", raised |-> "", res |-> <<>>]

Returned(op, res) == [op |-> op, raised |-> "", res |-> res]

Raised(op, exc) == [op |-> op, raised |-> exc, res |-> <<>>]

\* no analyzer loaded, nothing called yet; the directory is one of the family, or
\* missing; analysis_results.json is absent or holds one of Stale
InitWith(Folders, Names, Payloads, Stale) ==
    /\ data_folder \in Folders
    /\ dir_exists \in BOOLEAN
    /\ dir \in (IF dir_exists THEN Directories(Names, Payloads) ELSE {<<>>})
    /\ loaded = FALSE
    /\ df = <<>>
    /\ out = NoOut
    /\ snapshot \in [analysis_results : {<<>>} \cup {<<r>> : r \in Stale},
                     basic_analysis_results : {<<>>}]
    /\ series = <<>>
    /\ cache = NoCache

\* ShowInsights.load_data (ShowLevelAnalysis.load_data is the same code)
load_data ==
    /\ ~loaded
    /\ \E order \in Orders(GlobCsv) :
          LET dataframes == Frames(order)
          IN  IF dataframes = <<>>
              THEN \* pd.concat([]) raises "No objects to concatenate"
                   /\ out' = Raised("load_data", "ValueError")
                   /\ UNCHANGED <<loaded, df>>
              ELSE IF to_datetime_raises(Concat(dataframes))
              THEN \* self.df is the concatenation; prepare_data() raises
                   /\ df' = Concat(dataframes)
                   /\ out' = Raised("load_data", "ValueError")
                   /\ UNCHANGED loaded
              ELSE /\ df' = prepare_data(Concat(dataframes))
                   /\ loaded' = TRUE
                   /\ out' = Returned("load_data", <<>>)
    /\ UNCHANGED <<data_folder, dir_exists, dir, snapshot, series, cache>>

\* load_csv_data(data_folder)
load_csv_data ==
    /\ IF ~dir_exists
       THEN out' = Raised("load_csv_data", "FileNotFoundError")
       ELSE \E order \in Orders({f \in DOMAIN dir : NameEligible(f)}) :
               out' = Returned("load_csv_data", AllData(order))
    /\ UNCHANGED <<data_folder, dir_exists, dir, loaded, df, snapshot, series, cache>>

(***************************************************************************)
(* Ordering, sorting and arithmetic helpers of the aggregations.           *)
(***************************************************************************)
\* the characters of the model in code-point order
Ascii == <<".", "/", "@">> \o UpperChars \o <<"_">> \o LowerChars

\* the rank of a character; 0 for a value that is no character of the model
CharCode(c) ==
    IF \E i \in 1..Len(Ascii) : Ascii[i] = c
    THEN CHOOSE i \in 1..Len(Ascii) : Ascii[i] = c
    ELSE 0

\* a < b for Python strings
RECURSIVE StrLess(_, _)
StrLess(a, b) ==
    IF b = <<>> THEN FALSE
    ELSE IF a = <<>> THEN TRUE
    ELSE IF a[1] # b[1] THEN CharCode(a[1]) < CharCode(b[1])
    ELSE StrLess(Tail(a), Tail(b))

\* the order of groupby keys (event date, weekday tag [, event name])
KeyLess(k1, k2) ==
    \/ k1[1] < k2[1]
    \/ k1[1] = k2[1] /\ StrLess(k1[2], k2[2])
    \/ Len(k1) = 3 /\ k1[1] = k2[1] /\ k1[2] = k2[2] /\ StrLess(k1[3], k2[3])

\* the members of the key set K in ascending order (groupby sorts its keys)
SortedKeys(K) ==
    [n \in 1..Cardinality(K) |->
        CHOOSE k \in K : Cardinality({j \in K : KeyLess(j, k)}) = n - 1]

\* the strings of S in ascending order
SortedStrs(S) ==
    [n \in 1..Cardinality(S) |->
        CHOOSE k \in S : Cardinality({j \in S : StrLess(j, k)}) = n - 1]

\* list.sort(key=..., reverse=True), sort_values(ascending=False) and nlargest:
\* descending, entries that compare equal in their earlier relative order
SortDesc(list, Gt(_, _)) ==
    LET pos(i) == 1 + Cardinality({j \in DOMAIN list : Gt(list[j], list[i])})
                    + Cardinality({j \in DOMAIN list :
                                      j < i /\ ~Gt(list[j], list[i]) /\ ~Gt(list[i], list[j])})
    IN  [n \in DOMAIN list |-> list[CHOOSE i \in DOMAIN list : pos(i) = n]]

FirstN(list, n) == SubSeq(list, 1, IF Len(list) < n THEN Len(list) ELSE n)

\* a quotient n / d kept exact; den = 0 is the nan / inf numpy gives for x / 0
Quot(n, d) == [num |-> n, den |-> d]

\* `n / d if d > 0 else 0`
GuardedDiv(n, d) == IF d > 0 THEN Quot(n, d) ELSE Quot(0, 1)

\* p > q for quotients of non-negative numbers with non-zero denominators
QuotGt(p, q) == p.num * q.den > q.num * p.den

Count(t, P(_)) == Len(SelectSeq(t, P))

\* the customer_id values with the missing value among them
CustomersWithMissing(t) == {t[i].customer_id : i \in DOMAIN t}

\* Series.nunique() and value_counts() of customer_id: missing values do not count
Customers(t) == {t[i].customer_id : i \in DOMAIN t} \ {NaN}

OrdersOf(t, c) == LET Mine(r) == r.customer_id = c IN Count(t, Mine)

SameDay(r) == r.days_before_event = 0

IsFree(r) == r.pay = "Free"

(***************************************************************************)
(* ShowInsights: the aggregations.                                         *)
(***************************************************************************)
ShowKeys(t) == {<<t[i].event_date, t[i].day_of_week>> : i \in DOMAIN t}

\* the rows of one group of groupby(['Event start date', 'day_of_week'])
ShowData(t, k) ==
    LET InShow(r) == r.event_date = k[1] /\ r.day_of_week = k[2]
    IN  SelectSeq(t, InShow)

\* the entry analyze_individual_shows / show_overview_analysis build for one show
ShowEntry(t, k) ==
    LET show_data == ShowData(t, k)
        total_orders == Len(show_data)
    IN  [date |-> k[1],
         day |-> k[2],
         orders |-> total_orders,
         revenue |-> SumCol(show_data, "gross"),
         customers |-> Cardinality(Customers(show_data)),
         avg_days_before |-> Quot(SumCol(show_data, "days_before_event"), total_orders),
         same_day_rate |-> GuardedDiv(Count(show_data, SameDay), total_orders),
         free_rate |-> GuardedDiv(Count(show_data, IsFree), total_orders)]

MoreOrders(a, b) == a.orders > b.orders

\* ShowInsights.analyze_individual_shows: show_results, sorted by orders
SI_analyze_individual_shows(t) ==
    LET keys == SortedKeys(ShowKeys(t))
        show_results == [n \in DOMAIN keys |-> ShowEntry(t, keys[n])]
    IN  SortDesc(show_results, MoreOrders)

\* pd.cut(days_before_event, bins=[-1, 0, 1, 3, 7, 14, 30, inf], labels=...): the
\* label of the half-open bin (lo, hi] that holds d, NoBucket when none does
BookingLabels ==
    <<"Same Day", "1 Day", "2-3 Days", "4-7 Days", "1-2 Weeks", "2-4 Weeks", "1+ Month">>

NoBucket == "NaN"

BookingWindow(d) ==
    IF d > -1 /\ d <= 0 THEN "Same Day"
    ELSE IF d > 0 /\ d <= 1 THEN "1 Day"
    ELSE IF d > 1 /\ d <= 3 THEN "2-3 Days"
    ELSE IF d > 3 /\ d <= 7 THEN "4-7 Days"
    ELSE IF d > 7 /\ d <= 14 THEN "1-2 Weeks"
    ELSE IF d > 14 /\ d <= 30 THEN "2-4 Weeks"
    ELSE IF d > 30 THEN "1+ Month"
    ELSE NoBucket

\* one row of groupby(booking_windows).agg({'Order ID': 'count', 'Gross sales': 'sum'})
BookingRow(t, label) ==
    LET InWindow(r) == BookingWindow(r.days_before_event) = label
        rows == SelectSeq(t, InWindow)
    IN  [orders |-> Len(rows), gross |-> SumCol(rows, "gross")]

\* groupby on the categorical without observed=True: one row per label, also for the
\* labels no order falls in
BookingAnalysis(t) == [l \in Range(BookingLabels) |-> BookingRow(t, l)]

\* groupby(..., observed=True): only the labels some order falls in
BookingAnalysisObserved(t) ==
    [l \in {BookingWindow(t[i].days_before_event) : i \in DOMAIN t} \ {NoBucket} |->
        BookingRow(t, l)]

\* the sum of column f over the rows of table tab (a function key -> row)
RECURSIVE SumOver(_, _, _)
SumOver(tab, keys, f) ==
    IF keys = {} THEN 0
    ELSE LET k == CHOOSE x \in keys : TRUE
         IN  tab[k][f] + SumOver(tab, keys \ {k}, f)

TotalOf(tab, f) == SumOver(tab, DOMAIN tab, f)

\* one row of groupby('day_of_week').agg(count, sum, nunique) with the two averages
DayRow(t, day) ==
    LET OnDay(r) == r.day_of_week = day
        rows == SelectSeq(t, OnDay)
        shows == Cardinality({rows[i].event_date : i \in DOMAIN rows})
    IN  [day_of_week |-> day,
         orders |-> Len(rows),
         gross |-> SumCol(rows, "gross"),
         shows |-> shows,
         avg_orders_per_show |-> Quot(Len(rows), shows),
         avg_revenue_per_show |-> Quot(SumCol(rows, "gross"), shows)]

DayPerformance(t) ==
    LET days == SortedStrs({t[i].day_of_week : i \in DOMAIN t})
    IN  [n \in DOMAIN days |-> DayRow(t, days[n])]

BetterDay(a, b) == QuotGt(a.avg_orders_per_show, b.avg_orders_per_show)

\* one row of groupby('Payment type').agg(count, sum)
PricingImpact(t) ==
    [p \in {t[i].pay : i \in DOMAIN t} |->
        LET Paid(r) == r.pay = p
            rows == SelectSeq(t, Paid)
        IN  [orders |-> Len(rows), gross |-> SumCol(rows, "gross")]]

\* the customers with exactly one order / with more than one order
NewCustomers(t) == {c \in Customers(t) : OrdersOf(t, c) = 1}

ReturningCustomers(t) == {c \in Customers(t) : OrdersOf(t, c) > 1}

RevenueOf(t, cs) == LET Theirs(r) == r.customer_id \in cs IN SumCol(SelectSeq(t, Theirs), "gross")

\* ShowInsights.controllable_variables_analysis: what it prints and returns.  The
\* customer percentages divide Python ints (ZeroDivisionError on 0), the revenue
\* percentages divide numpy numbers (nan on 0).
SI_controllable_variables_analysis(t) ==
    LET booking_analysis == BookingAnalysis(t)
        new_customers == Cardinality(NewCustomers(t))
        returning_customers == Cardinality(ReturningCustomers(t))
        new_revenue == RevenueOf(t, NewCustomers(t))
        returning_revenue == RevenueOf(t, ReturningCustomers(t))
    IN  [raised |-> IF new_customers + returning_customers = 0
                    THEN "ZeroDivisionError" ELSE "",
         day_performance_sorted |-> SortDesc(DayPerformance(t), BetterDay),
         pricing_impact |-> PricingImpact(t),
         booking_analysis |-> booking_analysis,
         total_bookings |-> TotalOf(booking_analysis, "orders"),
         new_customers |-> new_customers,
         returning_customers |-> returning_customers,
         new_customers_pct |-> Quot(new_customers * 100, new_customers + returning_customers),
         returning_customers_pct |->
             Quot(returning_customers * 100, new_customers + returning_customers),
         new_revenue_pct |-> Quot(new_revenue * 100, new_revenue + returning_revenue),
         returning_revenue_pct |->
             Quot(returning_revenue * 100, new_revenue + returning_revenue)]

\* the order threshold of the repeat-customer case studies (total_orders >= 3)
RepeatOrders == 3

\* the percentage above which the free-ticket / same-day recommendation is made
SharePct == 15

Min(S) == CHOOSE x \in S : \A y \in S : x <= y

Max(S) == CHOOSE x \in S : \A y \in S : x >= y

\* one row of groupby('customer_id').agg(...), columns renamed as the code does
CustomerRow(t, c) ==
    LET Mine(r) == r.customer_id = c
        rows == SelectSeq(t, Mine)
    IN  [customer_id |-> c,
         total_orders |-> Len(rows),
         total_spent |-> SumCol(rows, "gross"),
         first_order |-> Min({rows[i].event_date : i \in DOMAIN rows}),
         last_order |-> Max({rows[i].event_date : i \in DOMAIN rows}),
         days_attended |-> {rows[i].day_of_week : i \in DOMAIN rows}]

\* customer_analysis: one row per customer_id, in customer_id order; rows whose
\* customer_id is missing form no group
CustomerAnalysis(t) ==
    LET ids == SortedStrs(Customers(t))
    IN  [n \in DOMAIN ids |-> CustomerRow(t, ids[n])]

\* customer_analysis[total_orders >= 3] with the derived columns
RepeatCustomers(t) ==
    LET IsRepeat(row) == row.total_orders >= RepeatOrders
        kept == SelectSeq(CustomerAnalysis(t), IsRepeat)
    IN  [n \in DOMAIN kept |->
            [avg_order_value |-> Quot(kept[n].total_spent, kept[n].total_orders),
             days_variety |-> Cardinality(kept[n].days_attended),
             customer_lifetime_days |-> kept[n].last_order - kept[n].first_order]
            @@ kept[n]]

MoreSpent(a, b) == a.total_spent > b.total_spent

MoreFrequent(a, b) == a.total_orders > b.total_orders

MoreDiverse(a, b) == a.days_variety > b.days_variety

LongerLifetime(a, b) == a.customer_lifetime_days > b.customer_lifetime_days

\* ShowInsights.repeat_customer_case_studies: the tables it builds and prints
SI_repeat_customer_case_studies(t) ==
    LET repeat_customers == RepeatCustomers(t)
    IN  [raised |-> "",
         customer_analysis |-> CustomerAnalysis(t),
         repeat_customers |-> repeat_customers,
         top_spenders |-> FirstN(SortDesc(repeat_customers, MoreSpent), 3),
         most_frequent |-> FirstN(SortDesc(repeat_customers, MoreFrequent), 3),
         most_diverse |-> FirstN(SortDesc(repeat_customers, MoreDiverse), 3)]

\* ShowInsights.generate_actionable_recommendations: the numbers behind its
\* recommendations; it first calls controllable_variables_analysis, whose exception
\* it does not catch
SI_generate_actionable_recommendations(t) ==
    LET cva == SI_controllable_variables_analysis(t)
        free_orders == Count(t, IsFree)
        total_orders == Len(t)
        same_day == Count(t, SameDay)
        repeat_customers == Cardinality(ReturningCustomers(t))
        total_customers == Cardinality(Customers(t))
    IN  [raised |-> IF cva.raised # "" THEN cva.raised
                    ELSE IF cva.day_performance_sorted = <<>> THEN "IndexError"
                    ELSE IF total_orders = 0 \/ total_customers = 0 THEN "ZeroDivisionError"
                    ELSE "",
         free_percentage |-> Quot(free_orders * 100, total_orders),
         reduce_free_tickets |-> free_orders * 100 > SharePct * total_orders,
         same_day_pct |-> Quot(same_day * 100, total_orders),
         promote_earlier |-> same_day * 100 > SharePct * total_orders,
         repeat_customers |-> repeat_customers,
         total_customers |-> total_customers,
         repeat_rate |-> Quot(repeat_customers * 100, total_customers)]

(***************************************************************************)
(* ShowLevelAnalysis.                                                      *)
(***************************************************************************)
Advance(r) == r.days_before_event >= 7

\* the entry built for one group of
\* groupby(['Event start date', 'day_of_week', 'Event name'])
SLAShowEntry(t, k) ==
    LET InGroup(r) == r.event_date = k[1] /\ r.day_of_week = k[2] /\ r.event_name = k[3]
        show_data == SelectSeq(t, InGroup)
        total_orders == Len(show_data)
        unique_customers == Cardinality(Customers(show_data))
        repeat_customers_for_show == Cardinality(ReturningCustomers(show_data))
        free_tickets == Count(show_data, IsFree)
    IN  [event_date |-> k[1],
         day_of_week |-> k[2],
         event_name |-> k[3],
         total_orders |-> total_orders,
         total_revenue |-> SumCol(show_data, "gross"),
         unique_customers |-> unique_customers,
         avg_order_value |-> GuardedDiv(SumCol(show_data, "gross"), total_orders),
         avg_days_before |-> Quot(SumCol(show_data, "days_before_event"), total_orders),
         same_day_purchases |-> Count(show_data, SameDay),
         same_day_rate |-> GuardedDiv(Count(show_data, SameDay), total_orders),
         advance_purchases |-> Count(show_data, Advance),
         advance_rate |-> GuardedDiv(Count(show_data, Advance), total_orders),
         repeat_customers |-> repeat_customers_for_show,
         repeat_rate |-> GuardedDiv(repeat_customers_for_show, unique_customers),
         free_tickets |-> free_tickets,
         free_rate |-> GuardedDiv(free_tickets, total_orders),
         paid_tickets |-> total_orders - free_tickets]

\* show_analysis[show_key] = {...} for the groups in key order: a later group with
\* the same show_key (event date and weekday tag) replaces the earlier entry
RECURSIVE AssignShows(_, _, _)
AssignShows(t, keys, show_analysis) ==
    IF keys = <<>> THEN show_analysis
    ELSE LET k == Head(keys)
             show_key == <<k[1], k[2]>>
         IN  AssignShows(t, Tail(keys), (show_key :> SLAShowEntry(t, k)) @@ show_analysis)

\* ShowLevelAnalysis.analyze_individual_shows: the dict show_key -> entry
SLA_analyze_individual_shows(t) ==
    AssignShows(t,
                SortedKeys({<<t[i].event_date, t[i].day_of_week, t[i].event_name>> :
                               i \in DOMAIN t}),
                <<>>)

\* the value of a division whose operands pandas could not align: NaN
NanQuot == Quot(0, 0)

\* day_performance of ShowLevelAnalysis: the table has a fresh integer index after
\* reset_index(), the divisor Series is indexed by day_of_week, so the division
\* aligns no label and avg_orders_per_show is NaN in every row
SLADayPerformance(t) ==
    LET days == SortedStrs({t[i].day_of_week : i \in DOMAIN t})
    IN  [n \in DOMAIN days |->
            LET OnDay(r) == r.day_of_week = days[n]
                rows == SelectSeq(t, OnDay)
            IN  [day_of_week |-> days[n],
                 orders |-> Len(rows),
                 gross |-> SumCol(rows, "gross"),
                 avg_orders_per_show |-> NanQuot]]

\* groupby('Payment type').agg(count, sum, nunique of customer_id)
SLAPricingImpact(t) ==
    [p \in {t[i].pay : i \in DOMAIN t} |->
        LET Paid(r) == r.pay = p
            rows == SelectSeq(t, Paid)
        IN  [orders |-> Len(rows), customers |-> Cardinality(Customers(rows))]]

\* the month of an event date, in the model's calendar of 30-day months
EventMonth(event_date) == (((event_date \div 30)) % 12) + 1

\* ShowLevelAnalysis.prepare_data: the fields of ShowInsights.prepare_data, the time
\* components of the two dates (the hour and the months here; weekday name, week
\* and year are read off the same two columns) and show_id
SLA_prepare_data(t) ==
    LET prepared == prepare_data(t)
    IN  [i \in DOMAIN t |->
            [order_hour |-> prepared[i].order_date % 24,
             order_month |-> EventMonth(prepared[i].order_date \div 24),
             event_month |-> EventMonth(prepared[i].event_date),
             show_id |-> <<prepared[i].event_date, prepared[i].day_of_week>>]
            @@ prepared[i]]

\* groupby('event_month').agg(count, sum)
SeasonalAnalysis(t) ==
    [m \in {EventMonth(t[i].event_date) : i \in DOMAIN t} |->
        LET InMonth(r) == EventMonth(r.event_date) = m
            rows == SelectSeq(t, InMonth)
        IN  [orders |-> Len(rows), gross |-> SumCol(rows, "gross")]]

\* the label the loop over the rows gives a row: 'New' when exactly one row has the
\* row's customer_id, else 'Returning'; a missing customer_id equals no row's, not
\* even its own, so its row is 'Returning'
CustomerType(t, r) ==
    IF r.customer_id # NaN /\ OrdersOf(t, r.customer_id) = 1 THEN "New" ELSE "Returning"

\* self.df['customer_type'] = customer_types
WithCustomerType(t) == [i \in DOMAIN t |-> [customer_type |-> CustomerType(t, t[i])] @@ t[i]]

\* groupby('customer_type').agg(count, sum)
AcquisitionAnalysis(t) ==
    [c \in {t[i].customer_type : i \in DOMAIN t} |->
        LET OfType(r) == r.customer_type = c
            rows == SelectSeq(t, OfType)
        IN  [orders |-> Len(rows), gross |-> SumCol(rows, "gross")]]

\* ShowLevelAnalysis.controllable_variables_analysis: the five tables it returns
\* and the table self.df it leaves behind, with the column customer_type
SLA_controllable_variables_analysis(t) ==
    [raised |-> "",
     df |-> WithCustomerType(t),
     day_performance |-> SLADayPerformance(t),
     pricing_impact |-> SLAPricingImpact(t),
     booking_analysis |-> BookingAnalysis(t),
     seasonal_analysis |-> SeasonalAnalysis(t),
     acquisition_analysis |-> AcquisitionAnalysis(WithCustomerType(t))]

\* day_performance.loc[avg_orders_per_show.idxmax(), 'day_of_week']: idxmax of an
\* empty column raises ValueError, of an all-NaN column gives NaN, which is no
\* label of the table
BestDayLookup(day_performance) ==
    IF day_performance = <<>> THEN "ValueError"
    ELSE IF \A n \in DOMAIN day_performance : day_performance[n].avg_orders_per_show.den = 0
    THEN "KeyError"
    ELSE ""

\* table[table[key column] == key][...].iloc[0]: IndexError when no row has the key
FirstRowLookup(table, key) == IF key \in DOMAIN table THEN "" ELSE "IndexError"

\* the first exception of a sequence of steps, "" when none raises
RECURSIVE FirstRaised(_)
FirstRaised(steps) ==
    IF steps = <<>> THEN ""
    ELSE IF Head(steps) # "" THEN Head(steps)
    ELSE FirstRaised(Tail(steps))

\* ShowLevelAnalysis.generate_actionable_recommendations: the outcome of each of
\* its lookups, the exception the call ends with, the table it leaves behind, and
\* whether the list it returns holds the free-ticket and the same-day
\* recommendation (a call that raises returns no list)
SLA_generate_actionable_recommendations(t) ==
    LET controllable_vars == SLA_controllable_variables_analysis(t)
        best_day == BestDayLookup(controllable_vars.day_performance)
        free_orders == FirstRowLookup(controllable_vars.pricing_impact, "Free")
        same_day_bookings ==
            IF Cardinality(DOMAIN controllable_vars.booking_analysis) > 0
            THEN FirstRowLookup(controllable_vars.booking_analysis, "Same Day")
            ELSE ""
        returning_revenue ==
            IF Cardinality(DOMAIN controllable_vars.acquisition_analysis) > 0
            THEN FirstRowLookup(controllable_vars.acquisition_analysis, "Returning")
            ELSE ""
        best_month ==
            IF DOMAIN controllable_vars.seasonal_analysis = {} THEN "ValueError" ELSE ""
        raised == FirstRaised(<<best_day, free_orders, same_day_bookings,
                                returning_revenue, best_month>>)
        total_orders == SumOver(controllable_vars.pricing_impact,
                                DOMAIN controllable_vars.pricing_impact, "orders")
    IN  [raised |-> raised,
         df |-> controllable_vars.df,
         reduce_free_tickets |->
            /\ raised = ""
            /\ controllable_vars.pricing_impact["Free"].orders * 100 > SharePct * total_orders,
         promote_earlier |->
            /\ raised = ""
            /\ controllable_vars.booking_analysis["Same Day"].orders * 100
                  > SharePct * total_orders,
         best_day |-> best_day,
         free_orders |-> free_orders,
         same_day_bookings |-> same_day_bookings,
         returning_revenue |-> returning_revenue,
         best_month |-> best_month]

(***************************************************************************)
(* Dashboard sections.                                                     *)
(***************************************************************************)
\* show_overview_analysis: the show table (one row per (event date, weekday tag)),
\* and the booking-window table grouped with observed=True.  Taking the best show
\* of an empty table raises.
show_overview_analysis(t) ==
    LET keys == SortedKeys(ShowKeys(t))
        show_results == [n \in DOMAIN keys |-> ShowEntry(t, keys[n])]
    IN  [raised |-> IF show_results = <<>> THEN "KeyError" ELSE "",
         show_results |-> show_results,
         day_performance |-> DayPerformance(t),
         booking_analysis |-> BookingAnalysisObserved(t)]

\* show_customer_analysis: the customer case studies and the key metrics; the
\* repeat rate divides Python ints
show_customer_analysis(t) ==
    LET repeat_customers == RepeatCustomers(t)
        total_customers == Cardinality(Customers(t))
    IN  [raised |-> IF total_customers = 0 THEN "ZeroDivisionError" ELSE "",
         customer_analysis |-> CustomerAnalysis(t),
         repeat_customers |-> repeat_customers,
         total_customers |-> total_customers,
         repeat_rate |-> Quot(Len(repeat_customers) * 100, total_customers),
         top_spenders |-> FirstN(SortDesc(repeat_customers, MoreSpent), 5),
         most_frequent |-> FirstN(SortDesc(repeat_customers, MoreFrequent), 5),
         most_diverse |-> FirstN(SortDesc(repeat_customers, MoreDiverse), 5),
         longest_relationship |-> FirstN(SortDesc(repeat_customers, LongerLifetime), 5)]

(***************************************************************************)
(* Batch analysis (basic_analysis.py).  Its rows are the csv module's: an  *)
(* empty Buyer email is the empty string.                                  *)
(***************************************************************************)
HasEmail(row) == row.email # <<>>

\* customer_orders: e-mail lowercased -> number of rows, rows without e-mail skipped
CustomerOrders(data) ==
    [email \in {Lower(data[i].email) : i \in {j \in DOMAIN data : HasEmail(data[j])}} |->
        LET Mine(row) == Lower(row.email) = email IN Count(data, Mine)]

\* row.get('Ticket quantity', 0)
TicketQuantity(row) == IF "qty" \in DOMAIN row THEN row.qty ELSE 0

\* int(...) of a ticket quantity or float(...) of a non-empty gross amount raises
\* ValueError on a text that is no number; nothing catches it
NumbersRaise(data) ==
    \E i \in DOMAIN data :
        TicketQuantity(data[i]) = Unparseable \/ data[i].gross = Unparseable

\* the rows the order-date-only variant of the parse loop would keep
ParsedOrderDate(data) ==
    LET Ok(row) == row.order_date # Unparseable IN SelectSeq(data, Ok)

\* the rows whose Order date and Event start date both pass strptime: the rows the
\* try block of the timing loop runs to its end for
ParsedDates(data) ==
    LET Ok(row) == row.order_date # Unparseable /\ row.event_date # Unparseable
    IN  SelectSeq(data, Ok)

\* max(hour_counts, key=hour_counts.get): the most frequent hour, the one seen
\* first among equals; None (here <<>>) when no row was parsed
PeakHour(order_hours) ==
    LET N(h) == Cardinality({i \in DOMAIN order_hours : order_hours[i] = h})
        First(h) == CHOOSE i \in DOMAIN order_hours :
                        order_hours[i] = h /\ \A j \in 1..(i - 1) : order_hours[j] # h
        hours == {order_hours[i] : i \in DOMAIN order_hours}
    IN  IF order_hours = <<>> THEN <<>>
        ELSE <<CHOOSE h \in hours :
                  \A g \in hours : N(g) < N(h) \/ (N(g) = N(h) /\ First(h) <= First(g))>>

\* row.get('Purchaser state', 'Unknown') and row.get('Purchaser city', 'Unknown')
PurchaserState(row) == IF "state" \in DOMAIN row THEN row.state ELSE "Unknown"

PurchaserCity(row) == IF "city" \in DOMAIN row THEN row.city ELSE "Unknown"

\* the number of entries most_common is asked for
TopN == 10

FirstSeen(keys, n) ==
    LET First(k) == CHOOSE i \in DOMAIN keys : keys[i] = k /\ \A j \in 1..(i - 1) : keys[j] # k
        rank(k) == Cardinality({a \in Range(keys) : First(a) < First(k)})
    IN  [k \in {a \in Range(keys) : rank(a) < n} |->
            Cardinality({i \in DOMAIN keys : keys[i] = k})]

\* dict(Counter(keys).most_common(n)): the n keys of the highest counts with their
\* counts; among equal counts the key seen first comes first
MostCommon(keys, n) ==
    LET N(k) == Cardinality({i \in DOMAIN keys : keys[i] = k})
        First(k) == CHOOSE i \in DOMAIN keys : keys[i] = k /\ \A j \in 1..(i - 1) : keys[j] # k
        Before(a, b) == N(a) > N(b) \/ (N(a) = N(b) /\ First(a) < First(b))
        rank(k) == Cardinality({a \in Range(keys) : Before(a, k)})
    IN  [k \in {a \in Range(keys) : rank(a) < n} |-> N(k)]

\* Counter(int(row.get('Ticket quantity', 1)) for row in data if row.get('Ticket
\* quantity')): the rows with the column, by quantity
TicketQuantities(data) ==
    LET with == {i \in DOMAIN data : "qty" \in DOMAIN data[i]}
    IN  [q \in {data[i].qty : i \in with} |-> Cardinality({i \in with : data[i].qty = q})]

\* a counter that counts every key once, however often it is seen
CounterOfDistinct(keys) == [k \in Range(keys) |-> 1]

\* dict(Counter(keys)): key -> the number of times it is seen
Counter(keys) ==
    [k \in Range(keys) |-> Cardinality({i \in DOMAIN keys : keys[i] = k})]

analyze_data(data) ==
    LET timed == ParsedDates(data)
        days_before_event ==
            [i \in DOMAIN timed |-> DaysBetween(timed[i].event_date, timed[i].order_date)]
        order_hours == [i \in DOMAIN timed |-> timed[i].order_date % 24]
        DaysIs0(d) == d = 0
        DaysLe1(d) == d <= 1
        DaysGe7(d) == d >= 7
        customer_orders == CustomerOrders(data)
        repeat_customers == Cardinality({e \in DOMAIN customer_orders : customer_orders[e] > 1})
    IN  [raised |-> IF NumbersRaise(data) THEN "ValueError" ELSE "",
         total_orders |-> Len(data),
         total_tickets |-> SumSeq([i \in DOMAIN data |-> TicketQuantity(data[i])]),
         total_revenue |-> SumCol(data, "gross"),
         unique_customers |->
             Cardinality({Lower(data[i].email) : i \in {j \in DOMAIN data : HasEmail(data[j])}}),
         has_timing |-> days_before_event # <<>>,
         avg_days_before_event |-> Quot(SumSeq(days_before_event), Len(days_before_event)),
         same_day_purchases |-> Len(SelectSeq(days_before_event, DaysIs0)),
         last_minute_purchases |-> Len(SelectSeq(days_before_event, DaysLe1)),
         advance_purchases |-> Len(SelectSeq(days_before_event, DaysGe7)),
         peak_hour |-> PeakHour(order_hours),
         hourly_distribution |-> Counter(order_hours),
         orders_by_day |-> Counter([i \in DOMAIN data |-> data[i].day_of_week]),
         customer_orders |-> customer_orders,
         repeat_customers |-> repeat_customers,
         repeat_customer_rate |->
             IF DOMAIN customer_orders # {}
             THEN Quot(repeat_customers * 100, Cardinality(DOMAIN customer_orders))
             ELSE Quot(0, 1),
         avg_orders_per_customer |->
             IF DOMAIN customer_orders # {}
             THEN Quot(Len(SelectSeq(data, HasEmail)), Cardinality(DOMAIN customer_orders))
             ELSE Quot(0, 1),
         top_states |-> MostCommon([i \in DOMAIN data |-> PurchaserState(data[i])], TopN),
         top_cities |-> MostCommon([i \in DOMAIN data |-> PurchaserCity(data[i])], TopN),
         payment_methods |-> Counter([i \in DOMAIN data |-> data[i].pay]),
         ticket_quantities |-> TicketQuantities(data)]

(***************************************************************************)
(* The JSON snapshot.  A Python scalar is its type with its value; a float *)
(* is kept to two decimal places (its value counted in hundredths), the    *)
(* model's precision in place of the 53 bits of a double.                  *)
(***************************************************************************)
FloatScale == 10 * 10

PyInt(n) == [type |-> "int", v |-> n]

PyNone == [type |-> "NoneType", v |-> 0]

\* the float nearest to the quotient q
PyFloat(q) ==
    [type |-> "float",
     v |-> IF q.num >= 0
           THEN (2 * q.num * FloatScale + q.den) \div (2 * q.den)
           ELSE 0 - ((2 * (0 - q.num) * FloatScale + q.den) \div (2 * q.den))]

\* the items of the results dict whose value is a scalar.  The timing keys exist
\* only when some row's dates parsed; sum() over no amount and the rates over no
\* customer are the int 0; peak_hour is None when no row's dates parsed.
Scalars(results) ==
    LET always ==
            [total_orders |-> PyInt(results.total_orders),
             total_tickets |-> PyInt(results.total_tickets),
             total_revenue |-> IF results.total_orders = 0 THEN PyInt(0)
                               ELSE PyFloat(Quot(results.total_revenue, 1)),
             unique_customers |-> PyInt(results.unique_customers),
             peak_hour |-> IF results.peak_hour = <<>> THEN PyNone
                           ELSE PyInt(results.peak_hour[1]),
             repeat_customer_rate |->
                 IF DOMAIN results.customer_orders = {} THEN PyInt(0)
                 ELSE PyFloat(results.repeat_customer_rate),
             avg_orders_per_customer |->
                 IF DOMAIN results.customer_orders = {} THEN PyInt(0)
                 ELSE PyFloat(results.avg_orders_per_customer)]
        timing ==
            [avg_days_before_event |-> PyFloat(results.avg_days_before_event),
             same_day_purchases |-> PyInt(results.same_day_purchases),
             last_minute_purchases |-> PyInt(results.last_minute_purchases),
             advance_purchases |-> PyInt(results.advance_purchases)]
    IN  IF results.has_timing THEN timing @@ always ELSE always

DigitChars == <<"0", "1", "2", "3", "4", "5", "6", "7", "8", "9">>

\* str(n) for n >= 0
RECURSIVE NatText(_)
NatText(n) ==
    IF n < 10 THEN <<DigitChars[n + 1]>>
    ELSE NatText(n \div 10) \o <<DigitChars[(n % 10) + 1]>>

\* int(text) for a text of digits
RECURSIVE ParseNat(_)
ParseNat(text) ==
    IF text = <<>> THEN 0
    ELSE 10 * ParseNat(SubSeq(text, 1, Len(text) - 1))
            + (CHOOSE d \in 0..9 : DigitChars[d + 1] = text[Len(text)])

\* '%.1f' % x: one decimal place, the second cut off
FloatReprOnePlace(u) ==
    (IF u < 0 THEN <<"-">> ELSE <<>>)
        \o NatText((IF u < 0 THEN 0 - u ELSE u) \div FloatScale) \o <<".">>
        \o NatText(((IF u < 0 THEN 0 - u ELSE u) % FloatScale) \div 10)

\* float.__repr__ of the float of u hundredths: the shortest decimal that reads
\* back as the same float, with one decimal place at least
FloatRepr(u) ==
    LET a == IF u < 0 THEN 0 - u ELSE u
        frac == a % FloatScale
    IN  (IF u < 0 THEN <<"-">> ELSE <<>>)
            \o NatText(a \div FloatScale) \o <<".">>
            \o (IF frac % 10 = 0 THEN NatText(frac \div 10)
                ELSE NatText(frac \div 10) \o NatText(frac % 10))

\* json.dumps of a scalar
json_dumps(value) ==
    IF value.type = "NoneType" THEN <<"n", "u", "l", "l">>
    ELSE IF value.type = "int"
    THEN (IF value.v < 0 THEN <<"-">> ELSE <<>>)
            \o NatText(IF value.v < 0 THEN 0 - value.v ELSE value.v)
    ELSE FloatRepr(value.v)

\* json.loads of a scalar's text: null, a number with a decimal point (a float) or
\* without one (an int)
json_loads(text) ==
    LET negative == text[1] = "-"
        digits == IF negative THEN Tail(text) ELSE text
        points == {i \in DOMAIN digits : digits[i] = "."}
        point == CHOOSE i \in points : TRUE
        whole == ParseNat(SubSeq(digits, 1, point - 1))
        places == SubSeq(digits, point + 1, Len(digits))
        hundredths == whole * FloatScale
                        + ParseNat(places) * (IF Len(places) = 1 THEN 10 ELSE 1)
    IN  IF text = <<"n", "u", "l", "l">> THEN PyNone
        ELSE IF points = {}
        THEN PyInt(IF negative THEN 0 - ParseNat(digits) ELSE ParseNat(digits))
        ELSE [type |-> "float", v |-> IF negative THEN 0 - hundredths ELSE hundredths]

\* save_results_json(results): the file's contents, the text of every scalar item
\* and the tables
save_results_json(results) ==
    [json |-> [k \in DOMAIN Scalars(results) |-> json_dumps(Scalars(results)[k])]]
        @@ results

\* json.load(f) of a snapshot file: the scalar items read back
json_load(file) == [k \in DOMAIN file.json |-> json_loads(file.json[k])]

\* one run of basic_analysis.main() in the working directory, whose data directory
\* is src/data: the exit status, whether the report was printed, and the snapshot
\* file after the run
BatchRun(order) ==
    IF ~(dir_exists /\ data_folder = SrcData)
    THEN \* os.listdir raises FileNotFoundError, which nothing catches
         [raised |-> "FileNotFoundError", exit_code |-> 1, report_printed |-> FALSE,
          snapshot_written |-> FALSE, analysis_results |-> snapshot.analysis_results]
    ELSE IF AllData(order) = <<>>
    THEN \* "No data found!" and return
         [raised |-> "", exit_code |-> 0, report_printed |-> FALSE,
          snapshot_written |-> FALSE, analysis_results |-> snapshot.analysis_results]
    ELSE IF analyze_data(AllData(order)).raised # ""
    THEN \* analyze_data raises; the traceback ends the run
         [raised |-> analyze_data(AllData(order)).raised, exit_code |-> 1,
          report_printed |-> FALSE, snapshot_written |-> FALSE,
          analysis_results |-> snapshot.analysis_results]
    ELSE [raised |-> "", exit_code |-> 0, report_printed |-> TRUE, snapshot_written |-> TRUE,
          analysis_results |-> <<save_results_json(analyze_data(AllData(order)))>>]

\* the listing orders os.listdir can give load_csv_data
ListingOrders == Orders({f \in DOMAIN dir : NameEligible(f)})

(***************************************************************************)
(* AdvancedTimeSeriesAnalysis: smoothing and anomaly flags.  A Series is a *)
(* sequence of integers, NaNNumber a missing entry; a computed value is an *)
(* exact quotient, NanQuot the nan.                                        *)
(***************************************************************************)
\* data.dropna(): the non-missing entries, in order
dropna(data) == SelectSeq(data, LAMBDA x : x # NaNNumber)

\* the positions (0-based index labels) of the entries dropna keeps, in order
KeptLabels(data) ==
    LET labels == [i \in DOMAIN data |-> i - 1]
    IN  SelectSeq(labels, LAMBDA l : data[l + 1] # NaNNumber)

\* scipy.stats.zscore(a), ddof = 0: (a - mean) / std with mean = S / n and
\* std = sqrt(sum((a - mean)^2) / n).  With the deviations scaled by n to stay in
\* the integers, entry i is dev * sqrt(n) / sqrt(ss) for dev = n * a[i] - S and
\* ss = the sum of the squared scaled deviations; ss = 0 is 0 / 0, the nan
zscore(a) ==
    LET n == Len(a)
        S == SumSeq(a)
        ss == SumSeq([j \in DOMAIN a |-> (n * a[j] - S) * (n * a[j] - S)])
    IN  [i \in DOMAIN a |-> [dev |-> n * a[i] - S, n |-> n, ss |-> ss]]

\* np.abs(z)
np_abs(z) == [z EXCEPT !.dev = IF z.dev < 0 THEN 0 - z.dev ELSE z.dev]

\* z > threshold for a non-negative z and the threshold num / den (den > 0): a
\* comparison with nan is False; against a non-negative threshold both sides are
\* squared
GreaterOrEqual(z, threshold) ==
    IF z.ss = 0 THEN FALSE
    ELSE IF threshold.num < 0 THEN TRUE
    ELSE z.dev * z.dev * z.n * threshold.den * threshold.den
            >= threshold.num * threshold.num * z.ss

GreaterNanTrue(z, threshold) ==
    IF z.ss = 0 THEN TRUE
    ELSE IF threshold.num < 0 THEN TRUE
    ELSE z.dev * z.dev * z.n * threshold.den * threshold.den
            > threshold.num * threshold.num * z.ss

Greater(z, threshold) ==
    IF z.ss = 0 THEN FALSE
    ELSE IF threshold.num < 0 THEN TRUE
    ELSE z.dev * z.dev * z.n * threshold.den * threshold.den
            > threshold.num * threshold.num * z.ss

\* AdvancedTimeSeriesAnalysis.detect_anomalies(data, threshold): the mask, one
\* entry per entry of data.dropna()
detect_anomalies(data, threshold) ==
    LET z_scores == [i \in DOMAIN dropna(data) |-> np_abs(zscore(dropna(data))[i])]
    IN  [i \in DOMAIN z_scores |-> Greater(z_scores[i], threshold)]

\* a Series' values as quotients
AsQuots(data) ==
    [i \in DOMAIN data |-> IF data[i] = NaNNumber THEN NanQuot ELSE Quot(data[i], 1)]

\* data.rolling(window=window, center=True).mean(): the window of entry i ends
\* (window - 1) // 2 entries after it; min_periods is the window, so a window
\* that leaves the Series or holds a missing entry gives nan
rolling_mean_trailing(data, window) ==
    LET lo(i) == i - window
        full(i) == lo(i) >= 1 /\ \A j \in lo(i)..i : data[j] # NaNNumber
    IN  [i \in DOMAIN data |->
            IF full(i) THEN Quot(SumSeq(SubSeq(data, lo(i), i)), window + 1)
            ELSE NanQuot]

rolling_mean(data, window) ==
    LET offset == (window - 1) \div 2
        lo(i) == i + offset - window + 1
        hi(i) == i + offset
        full(i) == /\ lo(i) >= 1
                   /\ hi(i) <= Len(data)
                   /\ \A j \in lo(i)..hi(i) : data[j] # NaNNumber
    IN  [i \in DOMAIN data |->
            IF full(i) THEN Quot(SumSeq(SubSeq(data, lo(i), hi(i))), window)
            ELSE NanQuot]

RECURSIVE Pow(_, _)
Pow(b, k) == IF k = 0 THEN 1 ELSE b * Pow(b, k - 1)

\* data.ewm(alpha=alpha).mean() for alpha = num / den, adjust=True and
\* ignore_na=False: the average of the entries seen so far, the entry k places
\* back weighted (1 - alpha)^k; a missing entry repeats the average before it,
\* nan before the first observation
ewm_mean(data, alpha) ==
    LET seen(i) == {j \in 1..i : data[j] # NaNNumber}
        last(i) == CHOOSE j \in seen(i) : \A k \in seen(i) : k <= j
        weight(i, j) == Pow(alpha.den - alpha.num, i - j) * Pow(alpha.den, j - 1)
        avg(i) == Quot(SumSeq([j \in 1..i |-> IF j \in seen(i)
                                               THEN weight(i, j) * data[j] ELSE 0]),
                       SumSeq([j \in 1..i |-> IF j \in seen(i)
                                               THEN weight(i, j) ELSE 0]))
    IN  [i \in DOMAIN data |-> IF seen(i) = {} THEN NanQuot ELSE avg(last(i))]

\* the polynomial order apply_smoothing passes to savgol_filter
PolyOrder == 3

\* The least-squares cubic through a window of points is the window minus its
\* components along the window's orthogonal polynomials of degree 4 and more;
\* each is given with the multiplier that brings its squared norm to the common
\* denominator den.
SavgolBasis(window_length) ==
    IF window_length = 5
    THEN [den |-> 70, polys |-> << [c |-> <<1, -4, 6, -4, 1>>, m |-> 1] >>]
    ELSE [den |-> 924,
          polys |-> << [c |-> <<3, -7, 1, 6, 1, -7, 3>>, m |-> 6],
                       [c |-> <<-1, 4, -5, 0, 5, -4, 1>>, m |-> 11],
                       [c |-> <<1, -6, 15, -20, 15, -6, 1>>, m |-> 1] >>]

\* the cubic fitted to the window xx, evaluated at its k-th point
CubicFit(xx, k) ==
    LET basis == SavgolBasis(Len(xx))
        dot(c) == SumSeq([j \in DOMAIN xx |-> c[j] * xx[j]])
        along == SumSeq([d \in DOMAIN basis.polys |->
                            basis.polys[d].m * basis.polys[d].c[k] * dot(basis.polys[d].c)])
    IN  IF \E j \in DOMAIN xx : xx[j] = NaNNumber THEN NanQuot
        ELSE Quot(basis.den * xx[k] - along, basis.den)

\* scipy.signal.savgol_filter(x, window_length, 3), mode='interp', for a window of
\* 5 or 7 no longer than x: an interior entry is the cubic fitted to the window
\* centred on it, evaluated at the centre; the first and last window_length // 2
\* entries are the cubic fitted to the first and last window_length entries
savgol_filter(x, window_length) ==
    LET half == window_length \div 2
        start(i) == IF i - half < 1 THEN 1
                    ELSE IF i + half > Len(x) THEN Len(x) - window_length + 1
                    ELSE i - half
    IN  [i \in DOMAIN x |->
            CubicFit(SubSeq(x, start(i), start(i) + window_length - 1), i - start(i) + 1)]

\* the edges are fitted with np.polyfit, whose least-squares solver is handed the
\* missing entries of the first and last window
EdgeHoldsNan(x, window_length) ==
    \E j \in (1..window_length) \cup ((Len(x) - window_length + 1)..Len(x)) :
        x[j] = NaNNumber

\* AdvancedTimeSeriesAnalysis.apply_smoothing(data, method, window, alpha): the
\* outcomes the call can have, each the exception raised ("" if none) and the
\* Series returned.  savgol_filter refuses a window no longer than the polynomial
\* order; given missing entries in an edge window, the solver either fails to
\* converge (LinAlgError) or returns nan, depending on the LAPACK build.
apply_smoothing(data, method, window, alpha) ==
    IF method = "rolling"
    THEN {[raised |-> "", value |-> rolling_mean(data, window)]}
    ELSE IF method = "exponential"
    THEN IF alpha.num <= 0 \/ alpha.num > alpha.den
         THEN {[raised |-> "ValueError", value |-> <<>>]}
         ELSE {[raised |-> "", value |-> ewm_mean(data, alpha)]}
    ELSE IF method = "savgol"
    THEN IF Len(data) > window
         THEN IF window <= PolyOrder
              THEN {[raised |-> "ValueError", value |-> <<>>]}
              ELSE IF EdgeHoldsNan(data, window)
              THEN {[raised |-> "LinAlgError", value |-> <<>>],
                    [raised |-> "", value |-> savgol_filter(data, window)]}
              ELSE {[raised |-> "", value |-> savgol_filter(data, window)]}
         ELSE {[raised |-> "", value |-> AsQuots(data)]}
    ELSE {[raised |-> "", value |-> AsQuots(data)]}

\* the arguments the callers pass: the thresholds of detect_anomalies (2 is its
\* default), and method, window and alpha of apply_smoothing (7 and 0.3 are the
\* defaults; the sidebar offers the Savitzky-Golay windows 5, 7, ..., 21)
DefaultThreshold == Quot(2, 1)

Thresholds == {Quot(0 - 1, 1), Quot(0, 1), Quot(1, 2), Quot(1, 1), Quot(3, 2), DefaultThreshold}

DefaultWindow == 7

DefaultAlpha == Quot(3, 10)

RollingWindows == {1, 3, 4}

Alphas == {DefaultAlpha, Quot(1, 2), Quot(1, 1)}

SavgolWindows == {3, 5, DefaultWindow}

AllowedSavgolWindows == {w \in 5..21 : w % 2 = 1}

SmoothingCalls ==
    {[method |-> "rolling", window |-> w, alpha |-> DefaultAlpha] : w \in RollingWindows}
    \cup {[method |-> "exponential", window |-> DefaultWindow, alpha |-> a] : a \in Alphas}
    \cup {[method |-> "savgol", window |-> w, alpha |-> DefaultAlpha] : w \in SavgolWindows}
    \cup {[method |-> "none", window |-> DefaultWindow, alpha |-> DefaultAlpha]}

(***************************************************************************)
(* Time-series preparation.  The calendar the timestamps live in: day 0 is *)
(* Monday 2024-01-01, and year_starts holds the day numbers on which the   *)
(* years from first_year on begin.                                         *)
(***************************************************************************)
Calendar == [first_year |-> 2024, year_starts |-> <<0, 366, 731, 1096, 1461>>]

\* the day number of 1 January
StartOfYear(year) == Calendar.year_starts[year - Calendar.first_year + 1]

\* Timestamp.year
YearOf(day) ==
    Calendar.first_year
    + Cardinality({i \in 2..Len(Calendar.year_starts) : Calendar.year_starts[i] <= day})

\* dt.dayofweek: Monday is 0
DayOfWeek(day) == day % 7

\* dt.isocalendar(): the ISO year and week are those of the Thursday of the day's
\* Monday-to-Sunday week
IsoCalendar(day) ==
    LET thursday == day - DayOfWeek(day) + 3
        year == YearOf(thursday)
    IN  [year |-> year, week |-> (thursday - StartOfYear(year)) \div 7 + 1]

\* pd.to_datetime("<Year>-W<Week>-1", format='%Y-W%W-%w'): %W numbers the weeks of
\* the calendar year from its first Monday (the days before it are week 0), and
\* %w = 1 is the Monday
WeekStart(year, week) ==
    LET first_weekday == DayOfWeek(StartOfYear(year))
        week_0_length == (7 - first_weekday) % 7
    IN  StartOfYear(year) + week_0_length + 7 * (week - 1)

\* df.groupby([iso year, iso week]).agg(...).reset_index(), one row per key, with
\* the Week_Start column
WeeklyRow(t, key) ==
    LET mine == {i \in DOMAIN t : IsoCalendar(t[i].order_date \div 24) = key}
        MineRow(r) == IsoCalendar(r.order_date \div 24) = key
        rows == SelectSeq(t, MineRow)
    IN  [Year |-> key.year, Week |-> key.week,
         Orders |-> Cardinality(mine),
         Revenue |-> SumCol(rows, "gross"),
         Tickets |-> SumSeq([i \in DOMAIN rows |-> TicketQuantity(rows[i])]),
         Unique_Customers |-> Cardinality({t[i].customer_id : i \in mine} \ {NaN}),
         Week_Start |-> WeekStart(key.year, key.week)]

\* sort_values('Week_Start') of the rows grouped by key: rows with equal Week_Start
\* keep the order of their keys
WeekBefore(a, b) ==
    \/ a.Week_Start < b.Week_Start
    \/ /\ a.Week_Start = b.Week_Start
       /\ \/ a.Year < b.Year
          \/ a.Year = b.Year /\ a.Week <= b.Week

RECURSIVE SortWeeks(_)
SortWeeks(rows) ==
    IF rows = {} THEN <<>>
    ELSE LET first == CHOOSE a \in rows : \A b \in rows : WeekBefore(a, b)
         IN  <<first>> \o SortWeeks(rows \ {first})

\* the daily aggregation: one row per calendar day with an order, ascending
DailyRow(t, day) ==
    LET mine == {i \in DOMAIN t : t[i].order_date \div 24 = day}
        MineRow(r) == r.order_date \div 24 = day
        rows == SelectSeq(t, MineRow)
    IN  [Date |-> day,
         Orders |-> Cardinality(mine),
         Revenue |-> SumCol(rows, "gross"),
         Tickets |-> SumSeq([i \in DOMAIN rows |-> TicketQuantity(rows[i])]),
         Unique_Customers |-> Cardinality({t[i].customer_id : i \in mine} \ {NaN})]

RECURSIVE SortDays(_)
SortDays(rows) ==
    IF rows = {} THEN <<>>
    ELSE LET first == CHOOSE a \in rows : \A b \in rows : a.Date <= b.Date
         IN  <<first>> \o SortDays(rows \ {first})

\* AdvancedTimeSeriesAnalysis.prepare_time_series_data on a copy of the table
prepare_time_series_data(t) ==
    [df |-> [i \in DOMAIN t |->
                [order_week |-> IsoCalendar(t[i].order_date \div 24).week,
                 order_year |-> YearOf(t[i].order_date \div 24),
                 order_weekday |-> DayOfWeek(t[i].order_date \div 24),
                 order_hour |-> t[i].order_date % 24] @@ t[i]],
     daily_data |-> SortDays({DailyRow(t, t[i].order_date \div 24) : i \in DOMAIN t}),
     weekly_data |->
        SortWeeks({WeeklyRow(t, IsoCalendar(t[i].order_date \div 24)) : i \in DOMAIN t})]

\* ShowLevelAnalysis.identify_repeat_customer_case_studies: the lifetime is computed
\* for every customer, then the repeat customers are kept
SLA_identify_repeat_customer_case_studies(t) ==
    LET customer_analysis ==
            [n \in DOMAIN CustomerAnalysis(t) |->
                LET row == CustomerAnalysis(t)[n]
                    Mine(r) == r.customer_id = row.customer_id
                    rows == SelectSeq(t, Mine)
                IN  [unique_events |-> Cardinality({rows[i].event_date : i \in DOMAIN rows}),
                     events_attended |-> {rows[i].event_name : i \in DOMAIN rows},
                     customer_lifetime_days |-> row.last_order - row.first_order] @@ row]
        IsRepeat(row) == row.total_orders >= RepeatOrders
        kept == SelectSeq(customer_analysis, IsRepeat)
        repeat_customers ==
            [n \in DOMAIN kept |->
                [avg_order_value |-> Quot(kept[n].total_spent, kept[n].total_orders),
                 days_variety |-> Cardinality(kept[n].days_attended)] @@ kept[n]]
        HigherAvg(a, b) == QuotGt(a.avg_order_value, b.avg_order_value)
    IN  [raised |-> "",
         repeat_customers |-> repeat_customers,
         highest_spender |-> FirstN(SortDesc(repeat_customers, MoreSpent), 5),
         most_frequent |-> FirstN(SortDesc(repeat_customers, MoreFrequent), 5),
         longest_relationship |-> FirstN(SortDesc(repeat_customers, LongerLifetime), 5),
         most_diverse_attendance |-> FirstN(SortDesc(repeat_customers, MoreDiverse), 5),
         highest_avg_order |-> FirstN(SortDesc(repeat_customers, HigherAvg), 5)]

\* (last - first).dt.days of two order timestamps
TimestampDays(first, last) == (last - first) \div 24

LessSpent(a, b) == a.total_spent < b.total_spent

\* AdvancedTimeSeriesAnalysis.create_customer_lifecycle_gantt: the customers drawn,
\* one bar each from first_order to last_order, with the lifetime of the hover text
create_customer_lifecycle_gantt(t, top_n, order) ==
    LET ids == SortedStrs(Customers(t))
        customer_analysis ==
            [n \in DOMAIN ids |->
                LET Mine(r) == r.customer_id = ids[n]
                    rows == SelectSeq(t, Mine)
                IN  [customer_id |-> ids[n],
                     first_order |-> Min({rows[i].order_date : i \in DOMAIN rows}),
                     last_order |-> Max({rows[i].order_date : i \in DOMAIN rows}),
                     total_orders |-> Len(rows),
                     total_spent |-> SumCol(rows, "gross"),
                     days_attended |-> {rows[i].day_of_week : i \in DOMAIN rows}]]
        IsRepeat(row) == row.total_orders >= RepeatOrders
        repeat_customers == SelectSeq(customer_analysis, IsRepeat)
        top_customers ==
            IF order = "top"
            THEN FirstN(SortDesc(repeat_customers, MoreSpent), top_n)
            ELSE FirstN(SortDesc(repeat_customers, LessSpent), top_n)
    IN  [raised |-> "",
         top_customers |->
            [n \in DOMAIN top_customers |->
                [lifetime_days |-> TimestampDays(top_customers[n].first_order,
                                                 top_customers[n].last_order)]
                @@ top_customers[n]]]

\* the slider of the Customer Lifecycle Timeline: from 10 to 50, 20 at first
GanttTopN == {10, 20, 50}

(***************************************************************************)
(* Actions: the calls on a loaded analyzer, the batch run, the dashboard's *)
(* snapshot load.                                                          *)
(***************************************************************************)
\* the outcome of a call whose result r carries the exception it raised
Outcome(op, r) == [op |-> op, raised |-> r.raised, res |-> r]

Analyse(o) ==
    /\ loaded
    /\ out' = o
    /\ UNCHANGED <<data_folder, dir_exists, dir, loaded, df, snapshot, series, cache>>

ShowInsights_analyze_individual_shows ==
    Analyse(Returned("ShowInsights.analyze_individual_shows", SI_analyze_individual_shows(df)))

ShowInsights_repeat_customer_case_studies ==
    Analyse(Outcome("ShowInsights.repeat_customer_case_studies",
                    SI_repeat_customer_case_studies(df)))

ShowInsights_controllable_variables_analysis ==
    Analyse(Outcome("ShowInsights.controllable_variables_analysis",
                    SI_controllable_variables_analysis(df)))

ShowInsights_generate_actionable_recommendations ==
    Analyse(Outcome("ShowInsights.generate_actionable_recommendations",
                    SI_generate_actionable_recommendations(df)))

ShowLevelAnalysis_analyze_individual_shows ==
    Analyse(Returned("ShowLevelAnalysis.analyze_individual_shows",
                     SLA_analyze_individual_shows(df)))

dashboard_show_overview_analysis ==
    Analyse(Outcome("show_overview_analysis", show_overview_analysis(df)))

dashboard_show_customer_analysis ==
    Analyse(Outcome("show_customer_analysis", show_customer_analysis(df)))

\* a call on a loaded ShowLevelAnalysis that leaves the table r.df behind
AnalyseInPlace(op, r) ==
    /\ loaded
    /\ out' = Outcome(op, r)
    /\ df' = r.df
    /\ UNCHANGED <<data_folder, dir_exists, dir, loaded, snapshot, series, cache>>

ShowLevelAnalysis_controllable_variables_analysis ==
    AnalyseInPlace("ShowLevelAnalysis.controllable_variables_analysis",
                   SLA_controllable_variables_analysis(df))

ShowLevelAnalysis_generate_actionable_recommendations ==
    AnalyseInPlace("ShowLevelAnalysis.generate_actionable_recommendations",
                   SLA_generate_actionable_recommendations(df))

\* prepare_data() called again on a loaded analyzer
ShowInsights_prepare_data ==
    /\ loaded
    /\ df' = prepare_data(df)
    /\ out' = Returned("ShowInsights.prepare_data", <<>>)
    /\ UNCHANGED <<data_folder, dir_exists, dir, loaded, snapshot, series, cache>>

ShowLevelAnalysis_prepare_data ==
    /\ loaded
    /\ df' = SLA_prepare_data(df)
    /\ out' = Returned("ShowLevelAnalysis.prepare_data", <<>>)
    /\ UNCHANGED <<data_folder, dir_exists, dir, loaded, snapshot, series, cache>>

\* basic_analysis.main(), run from the command line
main ==
    /\ \E order \in ListingOrders :
          LET run == BatchRun(order)
          IN  /\ out' = [op |-> "main",
                         raised |-> run.raised,
                         res |-> run]
              /\ snapshot' = [snapshot EXCEPT !.analysis_results = run.analysis_results]
    /\ UNCHANGED <<data_folder, dir_exists, dir, loaded, df, series, cache>>

\* dashboard.load_basic_analysis_results(): basic_analysis_results.json when it
\* exists, else the batch run as a subprocess and then analysis_results.json
load_basic_analysis_results ==
    /\ IF snapshot.basic_analysis_results # <<>>
       THEN /\ out' = Returned("load_basic_analysis_results",
                               [value |-> snapshot.basic_analysis_results,
                                scalars |-> json_load(snapshot.basic_analysis_results[1]),
                                ran_batch |-> FALSE, error_shown |-> FALSE])
            /\ UNCHANGED snapshot
       ELSE \E order \in ListingOrders :
               LET run == BatchRun(order)
               IN  /\ snapshot' = [snapshot EXCEPT !.analysis_results = run.analysis_results]
                   /\ out' =
                        IF run.exit_code = 0
                        THEN IF run.analysis_results = <<>>
                             THEN \* open('analysis_results.json') finds no file
                                  Raised("load_basic_analysis_results", "FileNotFoundError")
                             ELSE Returned("load_basic_analysis_results",
                                           [value |-> run.analysis_results,
                                            scalars |-> json_load(run.analysis_results[1]),
                                            ran_batch |-> TRUE, error_shown |-> FALSE])
                        ELSE Returned("load_basic_analysis_results",
                                      [value |-> <<>>, scalars |-> <<>>, ran_batch |-> TRUE,
                                       error_shown |-> TRUE])
    /\ UNCHANGED <<data_folder, dir_exists, dir, loaded, df, series, cache>>

\* load_show_analysis() when it is run: ShowInsights().load_data() over the glob
\* order `order`, the analyzer's table returned
LoadShowAnalysis(order) ==
    LET dataframes == Frames(order)
    IN  IF dataframes = <<>> THEN [raised |-> "ValueError", df |-> <<>>]
        ELSE IF to_datetime_raises(Concat(dataframes))
        THEN [raised |-> "ValueError", df |-> <<>>]
        ELSE [raised |-> "", df |-> prepare_data(Concat(dataframes))]

\* load_basic_analysis_results() when it is run, for the listing order `order` of
\* the batch run: the exception or the value returned (<<>> is None), what it did,
\* and analysis_results.json afterwards
LoadBasicAnalysisResults(order) ==
    IF snapshot.basic_analysis_results # <<>>
    THEN [raised |-> "", value |-> snapshot.basic_analysis_results, ran_batch |-> FALSE,
          read_snapshot |-> TRUE, analysis_results |-> snapshot.analysis_results]
    ELSE LET run == BatchRun(order)
         IN  [raised |-> IF run.exit_code = 0 /\ run.analysis_results = <<>>
                         THEN "FileNotFoundError" ELSE "",
              value |-> IF run.exit_code = 0 THEN run.analysis_results ELSE <<>>,
              ran_batch |-> TRUE,
              read_snapshot |-> run.exit_code = 0,
              analysis_results |-> run.analysis_results]

CacheNeverHits(entry) == FALSE

\* st.cache_data: a call is answered from the cache once the function has returned
\* a value (None included); a call that raised left nothing in the cache
CacheHit(entry) == entry # <<>>

\* the two loads of dashboard.main(), each through its cache, for the glob order of
\* load_data and the listing order of the batch run: the cache and
\* analysis_results.json afterwards and the outcome; an exception of the first load
\* ends the render
Render(order, listing) ==
    LET hit_show == CacheHit(cache.load_show_analysis)
        show == IF hit_show
                THEN [raised |-> "", df |-> cache.load_show_analysis[1]]
                ELSE LoadShowAnalysis(order)
        reached == show.raised = ""
        hit_basic == CacheHit(cache.load_basic_analysis_results)
        basic == LoadBasicAnalysisResults(listing)
        run_basic == reached /\ ~hit_basic
        basic_value == IF ~reached THEN <<>>
                       ELSE IF hit_basic THEN cache.load_basic_analysis_results
                       ELSE IF basic.raised = "" THEN <<basic.value>>
                       ELSE <<>>
    IN  [cache |-> [load_show_analysis |-> IF reached THEN <<show.df>> ELSE <<>>,
                    load_basic_analysis_results |->
                        IF run_basic THEN basic_value
                        ELSE cache.load_basic_analysis_results],
         snapshot |-> IF run_basic
                      THEN [snapshot EXCEPT !.analysis_results = basic.analysis_results]
                      ELSE snapshot,
         out |-> [op |-> "dashboard.main",
                  raised |-> IF ~reached THEN show.raised
                             ELSE IF hit_basic THEN ""
                             ELSE basic.raised,
                  res |-> [analyzer |-> IF reached THEN <<show.df>> ELSE <<>>,
                           basic_analysis_results |-> basic_value,
                           read_source_files |-> ~hit_show,
                           ran_batch |-> run_basic /\ basic.ran_batch,
                           read_snapshot |-> run_basic /\ basic.read_snapshot]]]

\* dashboard.main(), one render of the page up to the section chosen
dashboard_main ==
    /\ \E order \in Orders(GlobCsv), listing \in ListingOrders :
          \E render \in {Render(order, listing)} :
             /\ cache' = render.cache
             /\ snapshot' = render.snapshot
             /\ out' = render.out
    /\ UNCHANGED <<data_folder, dir_exists, dir, loaded, df, series>>

\* k.strip() is empty, for the names of the model
Blank(k) == k \in {"", " "}

\* show_geographic_analysis(results): what the section shows; results is <<>> for
\* None, else holds the snapshot read
show_geographic_analysis(results) ==
    IF results = <<>>
    THEN \* 'top_states' in None
         [raised |-> "TypeError"]
    ELSE LET states_data == results[1].top_states
             total_orders == results[1].total_orders
             Get(state) == IF state \in DOMAIN states_data THEN states_data[state] ELSE 0
             dc_orders == Get("DC")
             cities_data == results[1].top_cities
         IN  [raised |-> IF total_orders = 0 THEN "ZeroDivisionError" ELSE "",
              states_data |-> states_data,
              dc_orders |-> dc_orders,
              dc_percentage |-> Quot(dc_orders * 100, total_orders),
              dc_area |-> Get("DC") + Get("MD") + Get("VA"),
              cities_filtered |->
                  [k \in {c \in DOMAIN cities_data : ~Blank(c)} |-> cities_data[k]]]

\* dashboard.main() with 'Geographic Analysis' chosen in the sidebar: the two loads,
\* then show_geographic_analysis(basic_analysis_results); batch holds the exit status
\* of the batch run when this render ran one
dashboard_main_geographic_analysis ==
    /\ \E order \in Orders(GlobCsv), listing \in ListingOrders :
          \E render \in {Render(order, listing)} :
             /\ cache' = render.cache
             /\ snapshot' = render.snapshot
             /\ \E section \in {IF render.out.raised # "" THEN [raised |-> render.out.raised]
                                ELSE show_geographic_analysis(
                                         render.out.res.basic_analysis_results[1])},
                   run \in {BatchRun(listing)} :
                   out' = [op |-> "dashboard.main: Geographic Analysis",
                           raised |-> section.raised,
                           res |-> [section |-> IF render.out.raised # "" THEN <<>>
                                                ELSE <<section>>,
                                    batch |-> IF render.out.res.ran_batch
                                              THEN <<[exit_code |-> run.exit_code,
                                                      snapshot_written |-> run.snapshot_written]>>
                                              ELSE <<>>]
                                   @@ render.out.res]
    /\ UNCHANGED <<data_folder, dir_exists, dir, loaded, df, series>>

\* AdvancedTimeSeriesAnalysis.detect_anomalies, for a threshold of the caller
AdvancedTimeSeriesAnalysis_detect_anomalies ==
    /\ \E threshold \in Thresholds :
          out' = Returned("detect_anomalies",
                          [threshold |-> threshold,
                           mask |-> detect_anomalies(series, threshold)])
    /\ UNCHANGED <<data_folder, dir_exists, dir, loaded, df, snapshot, series, cache>>

\* AdvancedTimeSeriesAnalysis.apply_smoothing, for a method and the parameter it
\* reads (the other parameter holds its default)
AdvancedTimeSeriesAnalysis_apply_smoothing ==
    /\ \E call \in SmoothingCalls :
          \E r \in apply_smoothing(series, call.method, call.window, call.alpha) :
             out' = [op |-> "apply_smoothing", raised |-> r.raised,
                     res |-> [method |-> call.method, window |-> call.window,
                              alpha |-> call.alpha, value |-> r.value]]
    /\ UNCHANGED <<data_folder, dir_exists, dir, loaded, df, snapshot, series, cache>>

\* AdvancedTimeSeriesAnalysis(df): the constructor copies the analyzer's table and
\* prepares the aggregations
AdvancedTimeSeriesAnalysis_prepare_time_series_data ==
    /\ loaded
    /\ out' = Returned("prepare_time_series_data", prepare_time_series_data(df))
    /\ UNCHANGED <<data_folder, dir_exists, dir, loaded, df, snapshot, series, cache>>

ShowLevelAnalysis_identify_repeat_customer_case_studies ==
    Analyse(Outcome("ShowLevelAnalysis.identify_repeat_customer_case_studies",
                    SLA_identify_repeat_customer_case_studies(df)))

\* create_customer_lifecycle_gantt on the analyzer's table, for the slider's top_n
\* and either order
AdvancedTimeSeriesAnalysis_create_customer_lifecycle_gantt ==
    \E top_n \in GanttTopN, order \in {"top", "bottom"} :
       Analyse(Outcome("create_customer_lifecycle_gantt",
                       create_customer_lifecycle_gantt(
                           prepare_time_series_data(df).df, top_n, order)))

(***************************************************************************)
(* Inputs.  Each specification draws the directory from one family: the    *)
(* columns its claims are about vary, the others hold one value.           *)
(***************************************************************************)
EmailAX == <<"A","@","X">>
Emailax == <<"a","@","x">>
Emailby == <<"b","@","y">>
NameA == <<"A">>
NameB == <<"B">>

\* an order at 14:00 on day 9 for the event of day 10
DefaultRow == Row(9 * 24 + 14, 10, NameA, Emailax, "Paid", 10)

WeekdayFiles == {MondayCsv, FridayCsv}

\* shows: event date, event name and payment type vary
ShowRows ==
    {Row(9 * 24 + 14, e, n, Emailax, p, 10) :
        e \in {10, 17}, n \in {NameA, NameB}, p \in {"Paid", "Free"}}

\* timing: the order timestamp varies around the event of day 40: 14:00 and 00:00
\* on the event date, 14:00 and 00:00 the day before, 09:00 five days before, 40
\* days before, and 05:00 two days after the event
OrderDates ==
    {40 * 24 + 14, 40 * 24, 39 * 24 + 14, 39 * 24, 35 * 24 + 9, 0, 42 * 24 + 5}

TimingRows == {Row(o, 40, NameA, Emailax, "Paid", 10) : o \in OrderDates}

\* customers: the buyer e-mail varies (missing, two spellings of one address,
\* another address)
CustomerRows ==
    {Row(9 * 24 + 14, 10, NameA, email, "Paid", 10) :
        email \in {<<>>, EmailAX, Emailax, Emailby}}

\* rates: the buyer e-mail (missing or not), the amount and the payment type vary
RateRows ==
    {Row(9 * 24 + 14, 10, NameA, email, p, g) :
        email \in {<<>>, Emailax}, p \in {"Paid", "Free"}, g \in {0, 10}}

\* loader: the directory path and the file names vary
LoaderFiles == {MondayCsv, FridayCsv, EdaCsv, EDAMondayCsv, NotesTxt, FridayCsvCsv}

\* the show tables of the three report paths, and the per-weekday and per-payment
\* tables
Init == InitWith({SrcData}, WeekdayFiles, ShowRows, {})

Next ==
    \/ load_data
    \/ ShowInsights_analyze_individual_shows
    \/ ShowInsights_controllable_variables_analysis
    \/ ShowInsights_repeat_customer_case_studies
    \/ ShowLevelAnalysis_analyze_individual_shows
    \/ dashboard_show_overview_analysis

Spec == Init /\ [][Next]_vars

\* purchase timing in the table paths and in the batch run
InitTiming == InitWith({SrcData}, WeekdayFiles, TimingRows, {})

NextTiming ==
    \/ load_data
    \/ ShowInsights_analyze_individual_shows
    \/ ShowInsights_controllable_variables_analysis
    \/ dashboard_show_overview_analysis
    \/ main

SpecTiming == InitTiming /\ [][NextTiming]_vars

\* customers in the table paths and in the batch run
InitCustomers == InitWith({SrcData}, WeekdayFiles, CustomerRows, {})

NextCustomers ==
    \/ load_data
    \/ ShowInsights_repeat_customer_case_studies
    \/ ShowInsights_generate_actionable_recommendations
    \/ dashboard_show_customer_analysis
    \/ main

SpecCustomers == InitCustomers /\ [][NextCustomers]_vars

\* the rates of the table paths
InitRates == InitWith({SrcData}, WeekdayFiles, RateRows, {})

NextRates ==
    \/ load_data
    \/ ShowInsights_analyze_individual_shows
    \/ ShowInsights_controllable_variables_analysis
    \/ ShowInsights_generate_actionable_recommendations
    \/ ShowLevelAnalysis_analyze_individual_shows
    \/ dashboard_show_customer_analysis

SpecRates == InitRates /\ [][NextRates]_vars

\* parse failures: a valid order the day before the event and one five days
\* before it at 09:00, and orders with one field (or both dates) unparseable
ParseRows ==
    {[qty |-> q] @@ Row(o, e, NameA, Emailax, "Paid", g) :
        q \in {1}, o \in {9 * 24 + 14, 5 * 24 + 9}, e \in {10}, g \in {10}}
    \cup {[qty |-> 1] @@ Row(Unparseable, 10, NameA, Emailax, "Paid", 10),
          [qty |-> 1] @@ Row(9 * 24 + 14, Unparseable, NameA, Emailax, "Paid", 10),
          [qty |-> 1] @@ Row(Unparseable, Unparseable, NameA, Emailax, "Paid", 10),
          [qty |-> 1] @@ Row(9 * 24 + 14, 10, NameA, Emailax, "Paid", Unparseable),
          [qty |-> Unparseable] @@ Row(9 * 24 + 14, 10, NameA, Emailax, "Paid", 10)}

InitParse == InitWith({SrcData}, {FridayCsv}, ParseRows, {})

NextParse ==
    \/ load_data
    \/ ShowInsights_analyze_individual_shows
    \/ main

SpecParse == InitParse /\ [][NextParse]_vars

\* preparation: the order timestamp, the spelling of the e-mail and the amount
\* (a number or not) vary
PrepareRows ==
    {Row(o, 10, NameA, email, "Paid", g) :
        o \in {9 * 24 + 14, 5 * 24 + 9}, email \in {EmailAX, <<>>}, g \in {10, Unparseable}}

InitPrepare == InitWith({SrcData}, {FridayCsv}, PrepareRows, {})

NextPrepare ==
    \/ load_data
    \/ ShowInsights_prepare_data
    \/ ShowLevelAnalysis_prepare_data

SpecPrepare == InitPrepare /\ [][NextPrepare]_vars

\* ShowLevelAnalysis: payment type, buyer e-mail and purchase day vary
SLARows ==
    {Row(o, 10, NameA, email, p, 10) :
        o \in {9 * 24 + 14, 5 * 24}, email \in {Emailax, Emailby}, p \in {"Paid", "Free"}}

InitSLA == InitWith({SrcData}, WeekdayFiles, SLARows, {})

NextSLA ==
    \/ load_data
    \/ ShowLevelAnalysis_analyze_individual_shows
    \/ ShowLevelAnalysis_controllable_variables_analysis
    \/ ShowLevelAnalysis_generate_actionable_recommendations

SpecSLA == InitSLA /\ [][NextSLA]_vars

\* the loaders, the batch run and the dashboard's snapshot load
\* what an earlier batch run over one Monday order left in analysis_results.json
StaleResults == save_results_json(analyze_data(Tag(Stamp(MondayCsv, <<DefaultRow>>), Monday)))

InitLoader == InitWith({SrcData, SrcEdaData}, LoaderFiles, {DefaultRow}, {StaleResults})

NextLoader ==
    \/ load_data
    \/ load_csv_data
    \/ main
    \/ load_basic_analysis_results

SpecLoader == InitLoader /\ [][NextLoader]_vars

\* the time-series feature layer: anomaly flags and smoothing of one Series
\* the values a Series holds: small counts and a missing entry
SeriesValues == {0, 1, 5, NaNNumber}

\* the daily series of the anomaly example, and a longer one
ExampleSeries == <<10, 12, 11, 50, 9, 10, 11>>

LongSeries == <<10, 12, 11, 50, 9, 10, 11, 12>>

SeriesInputs == SeqsUpTo(SeriesValues, MaxSeries) \cup {ExampleSeries, LongSeries}

InitSeries ==
    /\ data_folder = SrcData
    /\ dir_exists = FALSE
    /\ dir = <<>>
    /\ loaded = FALSE
    /\ df = <<>>
    /\ out = NoOut
    /\ snapshot = [analysis_results |-> <<>>, basic_analysis_results |-> <<>>]
    /\ series \in SeriesInputs
    /\ cache = NoCache

NextSeries ==
    \/ AdvancedTimeSeriesAnalysis_detect_anomalies
    \/ AdvancedTimeSeriesAnalysis_apply_smoothing

SpecSeries == InitSeries /\ [][NextSeries]_vars

\* the recommendations of the two report paths: payment type and purchase day
\* (the event's date, or five days before it) vary
RecommendRows ==
    {Row(o, 10, NameA, Emailax, p, 10) : o \in {10 * 24 + 14, 5 * 24}, p \in {"Paid", "Free"}}

InitRecommend == InitWith({SrcData}, WeekdayFiles, RecommendRows, {})

NextRecommend ==
    \/ load_data
    \/ ShowInsights_generate_actionable_recommendations
    \/ ShowLevelAnalysis_generate_actionable_recommendations

SpecRecommend == InitRecommend /\ [][NextRecommend]_vars

\* the batch run over one file of up to MaxOrders orders with purchaser state and
\* city: the first orders each come from a state and a city of their own; each
\* later one does too, or comes from Washington, DC, or repeats the first state
\* and the second city
StateNames ==
    <<"VA", "MD", "NY", "PA", "NJ", "NC", "WV", "DE", "OH", "FL", "GA", "TX", "CA", "IL">>

CityNames ==
    <<"Arlington", "Bethesda", "Brooklyn", "Philadelphia", "Newark", "Raleigh", "Charleston",
      "Dover", "Columbus", "Miami", "Atlanta", "Austin", "Oakland", "Chicago">>

GeoRow(k, choice) ==
    [state |-> IF choice = "own" THEN StateNames[k]
               ELSE IF choice = "home" THEN "DC" ELSE StateNames[1],
     city |-> IF choice = "own" THEN CityNames[k]
              ELSE IF choice = "home" THEN "Washington" ELSE CityNames[2]] @@ DefaultRow

FixedOrders == TopN - 2

GeoSequences ==
    UNION {{[k \in 1..n |-> GeoRow(k, c[k])] :
               c \in {f \in [1..n -> {"own", "home", "repeat"}] :
                         \A k \in 1..n : k <= FixedOrders => f[k] = "own"}} :
           n \in 0..MaxOrders}

InitGeo ==
    /\ data_folder = SrcData
    /\ dir_exists = TRUE
    /\ dir \in {[n \in {FridayCsv} |-> Stamp(FridayCsv, rows)] : rows \in GeoSequences}
    /\ loaded = FALSE
    /\ df = <<>>
    /\ out = NoOut
    /\ snapshot = [analysis_results |-> <<>>, basic_analysis_results |-> <<>>]
    /\ series = <<>>
    /\ cache = NoCache

NextGeo ==
    \/ load_csv_data
    \/ main

SpecGeo == InitGeo /\ [][NextGeo]_vars

\* the snapshot written by the batch run and read back by the dashboard: the
\* purchase time (the day before the event, the day after it, or no date at all)
\* and the buyer e-mail vary
SnapshotRows ==
    {Row(o, 10, NameA, email, "Paid", 10) :
        o \in {9 * 24 + 14, 11 * 24 + 5, Unparseable}, email \in {Emailax, <<>>}}

InitSnapshot == InitWith({SrcData}, {FridayCsv}, SnapshotRows, {})

NextSnapshot ==
    \/ main
    \/ load_basic_analysis_results

SpecSnapshot == InitSnapshot /\ [][NextSnapshot]_vars

\* renders of the dashboard in one process, the files of the data directory
\* changing in between: up to MaxRows orders in the weekday files, or no directory
RenderDirs == Directories(WeekdayFiles, {DefaultRow})

InitRender ==
    /\ InitWith({SrcData}, WeekdayFiles, {DefaultRow}, {})

\* the data directory is changed on disk by someone else
files_change ==
    /\ dir_exists' \in BOOLEAN
    /\ dir' \in (IF dir_exists' THEN RenderDirs ELSE {<<>>})
    /\ <<dir_exists', dir'>> # <<dir_exists, dir>>
    /\ UNCHANGED <<data_folder, loaded, df, out, snapshot, series, cache>>

NextRender ==
    \/ dashboard_main
    \/ files_change

SpecRender == InitRender /\ [][NextRender]_vars

\* orders placed around the turns of the years: Wednesday 2024-01-03, Wednesday
\* 2024-06-12, Monday 2024-12-30, Wednesday 2025-01-15 and Wednesday 2026-12-30
\* (ISO week 53), for an event after all of them
WeekRows ==
    {Row(day * 24 + 14, 1100, NameA, Emailax, "Paid", 10) : day \in {2, 163, 364, 380, 1094}}

InitWeekly == InitWith({SrcData}, {FridayCsv}, WeekRows, {})

NextWeekly ==
    \/ load_data
    \/ AdvancedTimeSeriesAnalysis_prepare_time_series_data

SpecWeekly == InitWeekly /\ [][NextWeekly]_vars

\* one customer's orders: placed on day 5 at 14:00 or on day 8 at 09:00, for the
\* event of day 10 or of day 20
LifetimeRows ==
    {Row(o, e, NameA, Emailax, "Paid", 10) : o \in {5 * 24 + 14, 8 * 24 + 9}, e \in {10, 20}}

InitLifetime == InitWith({SrcData}, {FridayCsv}, LifetimeRows, {})

NextLifetime ==
    \/ load_data
    \/ ShowInsights_repeat_customer_case_studies
    \/ ShowLevelAnalysis_identify_repeat_customer_case_studies
    \/ dashboard_show_customer_analysis
    \/ AdvancedTimeSeriesAnalysis_create_customer_lifecycle_gantt

SpecLifetime == InitLifetime /\ [][NextLifetime]_vars

\* ShowLevelAnalysis on customers with and without a buyer e-mail
InitAcquisition == InitWith({SrcData}, {FridayCsv}, CustomerRows, {})

NextAcquisition ==
    \/ load_data
    \/ ShowLevelAnalysis_controllable_variables_analysis

SpecAcquisition == InitAcquisition /\ [][NextAcquisition]_vars

\* the batch run over orders placed on the event's day, the day before it, five and
\* seven days before it, or with no readable date, by two buyers or by none
BatchRows ==
    {Row(9 * 24 + 14, 10, NameA, Emailax, "Paid", 10),
     Row(9 * 24 + 14, 10, NameA, Emailby, "Paid", 10),
     Row(8 * 24 + 5, 10, NameA, Emailax, "Paid", 10),
     Row(2 * 24 + 14, 10, NameA, Emailax, "Paid", 10),
     Row(5 * 24, 10, NameA, <<>>, "Paid", 10),
     Row(Unparseable, 10, NameA, Emailby, "Paid", 10)}

InitBatch == InitWith({SrcData}, {FridayCsv}, BatchRows, {})

NextBatch ==
    \/ load_csv_data
    \/ main

SpecBatch == InitBatch /\ [][NextBatch]_vars

\* renders with the Geographic Analysis section: the amount of an order is a
\* number or a text that is none; a file may hold no order; analysis_results.json
\* is absent or left by an earlier run
SectionRows == {DefaultRow, Row(9 * 24 + 14, 10, NameA, Emailax, "Paid", Unparseable)}

InitSection == InitWith({SrcData}, WeekdayFiles, SectionRows, {StaleResults})

NextSection ==
    \/ dashboard_main
    \/ dashboard_main_geographic_analysis

SpecSection == InitSection /\ [][NextSection]_vars

(***************************************************************************)
(* Properties.                                                             *)
(***************************************************************************)
\* the number of rows of the loaded table that satisfy P
Records(P(_)) == Cardinality({i \in DOMAIN df : P(df[i])})

\* the calendar day of an order timestamp
DayOf(order_date) == order_date \div 24

HasCustomer(r) == r.email # NaN

\* C1: for every grouping (by show, by weekday tag, by payment type, by
\* customer_id, by booking window) the per-group order counts add up to the number
\* of records whose grouping key is present: no record dropped, none counted twice.
C1_GroupCountsAddUp ==
    /\ out.op = "ShowInsights.analyze_individual_shows" =>
          SumCol(out.res, "orders") = Len(df)
    /\ out.op = "show_overview_analysis" =>
          SumCol(out.res.show_results, "orders") = Len(df)
    /\ out.op = "ShowLevelAnalysis.analyze_individual_shows" =>
          TotalOf(out.res, "total_orders") = Len(df)
    /\ out.op = "ShowInsights.controllable_variables_analysis" =>
          /\ SumCol(out.res.day_performance_sorted, "orders") = Len(df)
          /\ TotalOf(out.res.pricing_impact, "orders") = Len(df)
          /\ TotalOf(out.res.booking_analysis, "orders") = Len(df)
    /\ out.op = "ShowInsights.repeat_customer_case_studies" =>
          SumCol(out.res.customer_analysis, "total_orders") = Records(HasCustomer)

\* C2: booking-window bucketing is a total partition: every record with a
\* days_before_event (zero and negative values included) is in exactly one of the
\* seven buckets, so the bucket counts add up to the number of records.
C2_BookingWindowsPartition ==
    /\ loaded => \A i \in DOMAIN df :
                    BookingWindow(df[i].days_before_event) \in Range(BookingLabels)
    /\ out.op = "ShowInsights.controllable_variables_analysis" =>
          TotalOf(out.res.booking_analysis, "orders") = Len(df)
    /\ out.op = "show_overview_analysis" =>
          TotalOf(out.res.booking_analysis, "orders") = Len(df)

\* C3: the show summary of ShowLevelAnalysis.analyze_individual_shows has exactly
\* one entry per (event date, weekday tag), whose total_orders is the number of
\* records with that pair whatever their event names; the entries' total_orders
\* add up to the record count.
C3_OneEntryPerShowInstance ==
    out.op = "ShowLevelAnalysis.analyze_individual_shows" =>
        /\ DOMAIN out.res = {<<df[i].event_date, df[i].day_of_week>> : i \in DOMAIN df}
        /\ \A k \in DOMAIN out.res :
              out.res[k].total_orders =
                  Cardinality({i \in DOMAIN df :
                                  df[i].event_date = k[1] /\ df[i].day_of_week = k[2]})
        /\ TotalOf(out.res, "total_orders") = Len(df)

\* the rows of the files of the directory, as (file name, line)
FileRows == UNION {{<<n, i>> : i \in DOMAIN dir[n]} : n \in DOMAIN dir}

FileRow(p) == dir[p[1]][p[2]]

\* C4: days_before_event is the number of days from the purchase's date to the
\* event's date: an order placed at any time on the event's calendar date has 0 and
\* counts as a same-day purchase, one placed at any time on the day before has 1.
C4_DaysBetweenCalendarDates ==
    /\ loaded => \A i \in DOMAIN df :
                    /\ DayOf(df[i].order_date) = df[i].event_date
                          => df[i].days_before_event = 0
                    /\ DayOf(df[i].order_date) = df[i].event_date - 1
                          => df[i].days_before_event = 1
    /\ (out.op = "main" /\ out.res.report_printed) =>
          \A r \in Range(out.res.analysis_results) :
              r.same_day_purchases =
                  Cardinality({p \in FileRows :
                                  DayOf(FileRow(p).order_date) = FileRow(p).event_date})

\* the customers (lowercased e-mails) with at least 3 orders in the loaded table
CustomersWith3Orders ==
    {c \in {Lower(df[i].email) : i \in {j \in DOMAIN df : HasCustomer(df[j])}} :
        Cardinality({i \in DOMAIN df : HasCustomer(df[i]) /\ Lower(df[i].email) = c}) >= 3}

\* the same over the rows of the files of the directory
BatchCustomersWith3Orders ==
    {c \in {Lower(FileRow(p).email) : p \in {q \in FileRows : FileRow(q).email # <<>>}} :
        Cardinality({p \in FileRows : FileRow(p).email # <<>>
                                      /\ Lower(FileRow(p).email) = c}) >= 3}

\* C5: in every report path a customer is a repeat customer exactly when the
\* customer_id has at least 3 orders; no customer with 1 or 2 orders is in a
\* repeat-customer count, rate or ranking.
C5_RepeatMeansThreeOrders ==
    /\ out.op \in {"ShowInsights.repeat_customer_case_studies", "show_customer_analysis"} =>
          /\ {r.customer_id : r \in Range(out.res.repeat_customers)} = CustomersWith3Orders
          /\ \A r \in Range(out.res.top_spenders) \cup Range(out.res.most_frequent)
                        \cup Range(out.res.most_diverse) :
                r.customer_id \in CustomersWith3Orders
    /\ (out.op = "show_customer_analysis" /\ out.raised = "") =>
          out.res.repeat_rate.num = 100 * Cardinality(CustomersWith3Orders)
    /\ (out.op = "ShowInsights.generate_actionable_recommendations" /\ out.raised = "") =>
          out.res.repeat_customers = Cardinality(CustomersWith3Orders)
    /\ (out.op = "main" /\ out.res.report_printed) =>
          \A r \in Range(out.res.analysis_results) :
              r.repeat_customers = Cardinality(BatchCustomersWith3Orders)

\* the files the Loader is to read: the own name ends in .csv and has no 'eda'
EligibleFiles == {n \in DOMAIN dir : EndsWith(n, DotCsv) /\ ~Contains(Lower(n), Eda)}

HasEligibleFile == dir_exists /\ EligibleFiles # {}

\* t holds each data row of each eligible file once and no other row, tagged with
\* the file's base name without its extension, the rows of a file in file order
LoaderOutputOf(t) ==
    /\ Len(t) = Cardinality({p \in FileRows : p[1] \in EligibleFiles})
    /\ {t[i].order_id : i \in DOMAIN t} = {p \in FileRows : p[1] \in EligibleFiles}
    /\ \A i \in DOMAIN t : t[i].day_of_week = Stem(t[i].order_id[1])
    /\ \A i, j \in DOMAIN t :
          (i < j /\ t[i].order_id[1] = t[j].order_id[1]) => t[i].order_id[2] < t[j].order_id[2]

\* C6: given a directory with at least one eligible file, the Loader's output is
\* exactly the data rows of the files whose own name ends in .csv and has no 'eda';
\* each record carries day_of_week = its file's base name without the extension,
\* and the rows of one file keep their order.
C6_LoaderReadsEligibleFiles ==
    HasEligibleFile =>
        /\ out.op = "load_csv_data" => (out.raised = "" /\ LoaderOutputOf(out.res))
        /\ out.op = "load_data" => (out.raised = "" /\ LoaderOutputOf(df))

\* C7: when the data directory is missing or holds no eligible file, loading fails
\* and the run is a hard stop: no report, no snapshot written, and the caller (the
\* dashboard that launched the batch run included) observes a failure.
C7_NoDataIsHardStop ==
    ~HasEligibleFile =>
        /\ out.op = "load_data" => out.raised # ""
        /\ out.op = "load_csv_data" => (out.raised # "" \/ out.res = <<>>)
        /\ out.op = "main" =>
              /\ ~out.res.report_printed
              /\ ~out.res.snapshot_written
              /\ out.res.exit_code # 0
        /\ (out.op = "load_basic_analysis_results" /\ out.raised = "") =>
              (out.res.ran_batch => (out.res.error_shown /\ out.res.value = <<>>))

\* two characters that are one letter in either case, or the same character
SameLetter(x, y) ==
    \/ x = y
    \/ \E k \in DOMAIN UpperChars : {x, y} = {UpperChars[k], LowerChars[k]}

\* two e-mails that differ at most in letter case
CaseEq(a, b) == Len(a) = Len(b) /\ \A i \in DOMAIN a : SameLetter(a[i], b[i])

NoUpper(s) == \A i \in DOMAIN s : \A k \in DOMAIN UpperChars : s[i] # UpperChars[k]

\* the rows of the directory that carry a buyer e-mail
EmailRows == {p \in FileRows : FileRow(p).email # <<>>}

\* the rows whose buyer e-mail is e up to letter case
RowsOf(e) == {p \in EmailRows : CaseEq(FileRow(p).email, e)}

\* the number of customers: e-mails that differ only in case are one customer
DistinctCustomers == Cardinality({RowsOf(FileRow(p).email) : p \in EmailRows})

\* a customer summary with one row per customer, under a lowercase customer_id,
\* that sums the orders of all the spellings of the e-mail
OneRowPerCustomer(customer_analysis) ==
    /\ Len(customer_analysis) = DistinctCustomers
    /\ \A n \in DOMAIN customer_analysis :
          LET row == customer_analysis[n]
          IN  /\ NoUpper(row.customer_id)
              /\ row.total_orders = Cardinality(RowsOf(row.customer_id))
              /\ row.total_orders > 0

\* C8: customer_id is the lowercased buyer e-mail: records whose e-mails differ
\* only in letter case are one customer, their orders are summed into one customer
\* row and they count once in every distinct-customer count.
C8_CaseVariantsAreOneCustomer ==
    /\ loaded => \A i \in DOMAIN df :
                    df[i].email # NaN =>
                        (NoUpper(df[i].customer_id) /\ CaseEq(df[i].customer_id, df[i].email))
    /\ out.op = "ShowInsights.repeat_customer_case_studies" =>
          OneRowPerCustomer(out.res.customer_analysis)
    /\ out.op = "show_customer_analysis" =>
          /\ OneRowPerCustomer(out.res.customer_analysis)
          /\ out.res.total_customers = DistinctCustomers
    /\ out.op = "ShowInsights.generate_actionable_recommendations" =>
          out.res.total_customers = DistinctCustomers
    /\ (out.op = "main" /\ out.res.report_printed) =>
          \A r \in Range(out.res.analysis_results) :
              /\ r.unique_customers = DistinctCustomers
              /\ \A c \in DOMAIN r.customer_orders :
                    NoUpper(c) /\ r.customer_orders[c] = Cardinality(RowsOf(c))

\* two records with the two spellings of one e-mail, summed into one customer row
C8_Witness ==
    /\ out.op = "ShowInsights.repeat_customer_case_studies"
    /\ \E i, j \in DOMAIN df : df[i].email = EmailAX /\ df[j].email = Emailax
    /\ \E n \in DOMAIN out.res.customer_analysis :
          /\ out.res.customer_analysis[n].customer_id = Emailax
          /\ out.res.customer_analysis[n].total_orders >= 2

\* the rows of the directory without a buyer e-mail
NoEmailRows == FileRows \ EmailRows

\* C9 as stated: a record with a missing buyer e-mail gets customer_id = the empty
\* string, and these records form one 'no customer' row of the customer summary,
\* with their order count.
C9_MissingEmailIsEmptyCustomer ==
    /\ loaded => \A i \in DOMAIN df : df[i].email = NaN => df[i].customer_id = <<>>
    /\ (out.op \in {"ShowInsights.repeat_customer_case_studies", "show_customer_analysis"}
        /\ NoEmailRows # {}) =>
          \E n \in DOMAIN out.res.customer_analysis :
              /\ out.res.customer_analysis[n].customer_id = <<>>
              /\ out.res.customer_analysis[n].total_orders = Cardinality(NoEmailRows)

\* C9 as the code has it: a record with a missing buyer e-mail has a missing
\* customer_id; these records are in no row of the customer summary and in no
\* customer count, in the table paths and in the batch run.
C9_MissingEmailIsNoCustomer ==
    /\ loaded => \A i \in DOMAIN df : df[i].email = NaN => df[i].customer_id = NaN
    /\ out.op \in {"ShowInsights.repeat_customer_case_studies", "show_customer_analysis"} =>
          /\ \A n \in DOMAIN out.res.customer_analysis :
                /\ out.res.customer_analysis[n].customer_id \notin {<<>>, NaN}
                /\ \E p \in EmailRows :
                      CaseEq(FileRow(p).email, out.res.customer_analysis[n].customer_id)
          /\ SumCol(out.res.customer_analysis, "total_orders") = Cardinality(EmailRows)
    /\ out.op \in {"show_customer_analysis",
                   "ShowInsights.generate_actionable_recommendations"} =>
          out.res.total_customers = DistinctCustomers
    /\ (out.op = "main" /\ out.res.report_printed) =>
          \A r \in Range(out.res.analysis_results) :
              /\ <<>> \notin DOMAIN r.customer_orders
              /\ r.unique_customers = DistinctCustomers
              /\ Cardinality(DOMAIN r.customer_orders) = DistinctCustomers

\* a customer summary over a record without e-mail and a record with one
C9_Witness ==
    /\ out.op = "ShowInsights.repeat_customer_case_studies"
    /\ NoEmailRows # {}
    /\ EmailRows # {}
    /\ Len(out.res.customer_analysis) = 1

\* a rate that is a number: a zero denominator has given 0, not nan or inf
RateIsNumber(q) == q.den # 0

\* C10: every rate yields 0 and no error when its denominator is 0: the per-show
\* rates, the shares and the repeat rate of the recommendations, the new/returning
\* customer and revenue percentages, the dashboard's repeat rate.
C10_RatesOnZeroDenominator ==
    /\ out.op = "ShowInsights.analyze_individual_shows" =>
          \A n \in DOMAIN out.res :
              RateIsNumber(out.res[n].same_day_rate) /\ RateIsNumber(out.res[n].free_rate)
    /\ out.op = "ShowLevelAnalysis.analyze_individual_shows" =>
          \A k \in DOMAIN out.res :
              /\ RateIsNumber(out.res[k].same_day_rate)
              /\ RateIsNumber(out.res[k].free_rate)
              /\ RateIsNumber(out.res[k].repeat_rate)
    /\ out.op = "ShowInsights.controllable_variables_analysis" =>
          /\ out.raised = ""
          /\ RateIsNumber(out.res.new_customers_pct)
          /\ RateIsNumber(out.res.returning_customers_pct)
          /\ RateIsNumber(out.res.new_revenue_pct)
          /\ RateIsNumber(out.res.returning_revenue_pct)
    /\ out.op = "ShowInsights.generate_actionable_recommendations" =>
          /\ out.raised = ""
          /\ RateIsNumber(out.res.free_percentage)
          /\ RateIsNumber(out.res.same_day_pct)
          /\ RateIsNumber(out.res.repeat_rate)
    /\ out.op = "show_customer_analysis" =>
          (out.raised = "" /\ RateIsNumber(out.res.repeat_rate))

\* C11: no summary table has a row for a group without records: the show, weekday,
\* payment-type and booking-window summaries list only groups with at least one
\* order (no zero-filled bucket rows).
C11_NoZeroFilledRows ==
    /\ out.op = "ShowInsights.analyze_individual_shows" =>
          \A n \in DOMAIN out.res : out.res[n].orders > 0
    /\ out.op = "ShowInsights.controllable_variables_analysis" =>
          /\ \A n \in DOMAIN out.res.day_performance_sorted :
                out.res.day_performance_sorted[n].orders > 0
          /\ \A k \in DOMAIN out.res.pricing_impact : out.res.pricing_impact[k].orders > 0
          /\ \A l \in DOMAIN out.res.booking_analysis : out.res.booking_analysis[l].orders > 0
    /\ out.op = "show_overview_analysis" =>
          /\ \A n \in DOMAIN out.res.show_results : out.res.show_results[n].orders > 0
          /\ \A l \in DOMAIN out.res.booking_analysis : out.res.booking_analysis[l].orders > 0

\* C12: for every non-empty record set, also one with no 'Free' order, no order in
\* the 'Same Day' bucket or no returning customer,
\* ShowLevelAnalysis.generate_actionable_recommendations returns its list without
\* raising, the count of the absent group taken as 0.
C12_RecommendationsNeverRaise ==
    (out.op = "ShowLevelAnalysis.generate_actionable_recommendations" /\ Len(df) > 0) =>
        /\ out.res.free_orders = ""
        /\ out.res.same_day_bookings = ""
        /\ out.res.returning_revenue = ""
        /\ out.raised = ""

\* the rows of the directory with a field that cannot be parsed
BadDateRows ==
    {p \in FileRows : FileRow(p).order_date = Unparseable \/ FileRow(p).event_date = Unparseable}

BadNumberRows ==
    {p \in FileRows : FileRow(p).gross = Unparseable
                      \/ ("qty" \in DOMAIN FileRow(p) /\ FileRow(p).qty = Unparseable)}

\* C13: a row-level parse failure is never fatal: a record whose Order date, Event
\* start date, Ticket quantity or Gross sales cannot be parsed does not abort the
\* load, the preparation or the analysis of the other records.
C13_ParseFailureNotFatal ==
    (dir_exists /\ BadDateRows \cup BadNumberRows # {}) =>
        /\ out.op = "load_data" => (out.raised = "" /\ loaded)
        /\ out.op = "main" =>
              (out.raised = "" /\ out.res.report_printed /\ out.res.exit_code = 0)

\* the rows of the directory whose two dates parse
TimedRows == FileRows \ BadDateRows

DaysOfRow(p) == DaysBetween(FileRow(p).event_date, FileRow(p).order_date)

\* C14: in the batch analyze_data a record whose Order date or Event start date
\* fails to parse is left out of every time-based aggregate (average days before
\* the event, same-day, last-minute and advance counts, hourly distribution, peak
\* hour) and is still counted in total_orders and orders_by_day.
C14_UnparsedDatesOnlySkipTiming ==
    (out.op = "main" /\ out.res.report_printed) =>
        \A r \in Range(out.res.analysis_results) :
            /\ r.total_orders = Cardinality(FileRows)
            /\ DOMAIN r.orders_by_day = {Stem(p[1]) : p \in FileRows}
            /\ \A d \in DOMAIN r.orders_by_day :
                  r.orders_by_day[d] = Cardinality({p \in FileRows : Stem(p[1]) = d})
            /\ r.has_timing = (TimedRows # {})
            /\ r.avg_days_before_event.den = Cardinality(TimedRows)
            /\ r.same_day_purchases = Cardinality({p \in TimedRows : DaysOfRow(p) = 0})
            /\ r.last_minute_purchases = Cardinality({p \in TimedRows : DaysOfRow(p) <= 1})
            /\ r.advance_purchases = Cardinality({p \in TimedRows : DaysOfRow(p) >= 7})
            /\ DOMAIN r.hourly_distribution = {FileRow(p).order_date % 24 : p \in TimedRows}
            /\ \A h \in DOMAIN r.hourly_distribution :
                  r.hourly_distribution[h] =
                      Cardinality({p \in TimedRows : FileRow(p).order_date % 24 = h})
            /\ (TimedRows = {}) = (r.peak_hour = <<>>)
            /\ \A n \in DOMAIN r.peak_hour : r.peak_hour[n] \in DOMAIN r.hourly_distribution

\* a report over a record with an unparseable date and a record with both dates
C14_Witness ==
    /\ out.op = "main"
    /\ out.res.report_printed
    /\ BadDateRows # {}
    /\ TimedRows # {}
    /\ \E r \in Range(out.res.analysis_results) :
          r.total_orders = Cardinality(FileRows) /\ r.total_orders > Cardinality(TimedRows)

\* C15: snapshot read-through: once a batch run has written its snapshot, every
\* later load of the interactive layer, with the snapshot still on disk, returns
\* the snapshot's contents and runs no batch analysis again.
C15_SnapshotReadThrough ==
    [][(snapshot.analysis_results # <<>> /\ out'.op = "load_basic_analysis_results") =>
          /\ out'.raised = ""
          /\ ~out'.res.ran_batch
          /\ out'.res.value = snapshot.analysis_results]_vars

\* the analysis operations of a loaded ShowLevelAnalysis
SLAOperations ==
    {"ShowLevelAnalysis.analyze_individual_shows",
     "ShowLevelAnalysis.controllable_variables_analysis",
     "ShowLevelAnalysis.generate_actionable_recommendations"}

\* C16: no analysis operation mutates upstream state: every aggregation and
\* recommendation leaves the enriched record set (its rows and its set of columns)
\* as it found it.
C16_AnalysisLeavesRecordsAlone ==
    [][out'.op \in SLAOperations => df' = df]_vars

\* the derived fields of the two preparations
SIDerived == {"days_before_event", "customer_id", "gross"}

SLADerived == SIDerived \cup {"order_hour", "order_month", "event_month", "show_id"}

\* table `again` has the rows of df with the same value in each field of `fields`
SameDerived(again, fields) ==
    /\ DOMAIN again = DOMAIN df
    /\ \A i \in DOMAIN df : \A f \in fields : again[i][f] = df[i][f]

\* C17: the Feature Preparer is idempotent: run on its own output, prepare_data
\* leaves every derived field (days_before_event, customer_id, the time components,
\* show_id) and every coerced revenue column at its value after the first run.
C17_PrepareIdempotent ==
    /\ (loaded /\ out.op \in {"load_data", "ShowInsights.prepare_data"}) =>
          SameDerived(prepare_data(df), SIDerived)
    /\ out.op = "ShowLevelAnalysis.prepare_data" =>
          /\ SameDerived(SLA_prepare_data(df), SLADerived)
          /\ SameDerived(prepare_data(df), SIDerived)

\* a prepared table with an order placed during the day, an upper-case e-mail and
\* an amount that was no number
C17_Witness ==
    /\ out.op = "ShowLevelAnalysis.prepare_data"
    /\ \E i \in DOMAIN df : df[i].order_hour # 0 /\ df[i].customer_id = Emailax
    /\ \E i \in DOMAIN df : df[i].gross = NaNNumber

\* the series' non-missing entries are all one value, and there is one at least
ZeroVariance ==
    /\ dropna(series) # <<>>
    /\ \A i, j \in DOMAIN dropna(series) : dropna(series)[i] = dropna(series)[j]

\* C18: for a constant (zero-variance) series of any length >= 1, detect_anomalies
\* raises no division error and returns a mask that is False at every position,
\* whatever the threshold.
C18_ConstantSeriesNoAnomalies ==
    (out.op = "detect_anomalies" /\ ZeroVariance) =>
        /\ out.raised = ""
        /\ Len(out.res.mask) = Len(dropna(series))
        /\ \A i \in DOMAIN out.res.mask : ~out.res.mask[i]

\* three equal entries under a negative threshold, which every number exceeds
C18_Witness ==
    /\ out.op = "detect_anomalies"
    /\ series = <<5, 5, 5>>
    /\ out.res.threshold.num < 0
    /\ out.res.mask = <<FALSE, FALSE, FALSE>>

\* |x - mean| > threshold * std for entry i of the non-missing entries x, the
\* threshold num / den and the population standard deviation: with n entries of
\* sum S and sum of squares SQ, n^2 * variance = n * SQ - S^2 and
\* n * (x - mean) = n * x - S
ExceedsThreshold(x, i, threshold) ==
    LET n == Len(x)
        S == SumSeq(x)
        SQ == SumSeq([j \in DOMAIN x |-> x[j] * x[j]])
    IN  IF threshold.num < 0
        THEN n * SQ - S * S > 0
        ELSE threshold.den * threshold.den * (n * x[i] - S) * (n * x[i] - S)
                > threshold.num * threshold.num * (n * SQ - S * S)

\* C19: detect_anomalies flags position i exactly when |x_i - mean| strictly
\* exceeds threshold times the (population) standard deviation of the series; the
\* mask has one entry per non-missing entry, in order; for
\* [10, 12, 11, 50, 9, 10, 11] and threshold 2.0 it flags index 3 and no other.
C19_FlagsBeyondThreshold ==
    out.op = "detect_anomalies" =>
        /\ out.raised = ""
        /\ Len(out.res.mask) = Len(KeptLabels(series))
        /\ \A k \in DOMAIN out.res.mask :
              /\ series[KeptLabels(series)[k] + 1] = dropna(series)[k]
              /\ out.res.mask[k] = ExceedsThreshold(dropna(series), k, out.res.threshold)
        /\ (series = ExampleSeries /\ out.res.threshold = DefaultThreshold) =>
              {KeptLabels(series)[k] : k \in {j \in DOMAIN out.res.mask : out.res.mask[j]}}
                 = {3}

\* the example series under the default threshold, its fourth entry flagged
C19_Witness ==
    /\ out.op = "detect_anomalies"
    /\ series = ExampleSeries
    /\ out.res.threshold = DefaultThreshold
    /\ out.res.mask[4]

\* the Series a and b hold the same values, nan where the other has nan
SameValues(a, b) ==
    /\ Len(a) = Len(b)
    /\ \A i \in DOMAIN a :
          /\ a[i].den = 0 <=> b[i].den = 0
          /\ a[i].num * b[i].den = b[i].num * a[i].den

\* C20: apply_smoothing with method 'savgol' returns the input series unchanged
\* whenever the window exceeds the series' length and the output of the degree-3
\* polynomial filter otherwise, and raises nothing for a window of the allowed odd
\* range (stated for series without missing entries, as the daily aggregation's
\* are).
C20_SavgolFiltersUnlessWindowExceeds ==
    (/\ out.op = "apply_smoothing"
     /\ out.res.method = "savgol"
     /\ out.res.window \in AllowedSavgolWindows
     /\ \A i \in DOMAIN series : series[i] # NaNNumber) =>
        /\ out.raised = ""
        /\ IF out.res.window > Len(series)
           THEN out.res.value = AsQuots(series)
           ELSE SameValues(out.res.value, savgol_filter(series, out.res.window))

\* C21: apply_smoothing with method 'rolling' and window 1 returns a series equal
\* to the input at every position: the same length, the same values (a missing
\* entry stays missing).
C21_RollingWindowOneIsIdentity ==
    (out.op = "apply_smoothing" /\ out.res.method = "rolling" /\ out.res.window = 1) =>
        /\ out.raised = ""
        /\ Len(out.res.value) = Len(series)
        /\ \A i \in DOMAIN series :
              IF series[i] = NaNNumber
              THEN out.res.value[i].den = 0
              ELSE /\ out.res.value[i].den # 0
                   /\ out.res.value[i].num = series[i] * out.res.value[i].den

\* a series of three different counts smoothed with window 1
C21_Witness ==
    /\ out.op = "apply_smoothing"
    /\ out.res.method = "rolling"
    /\ out.res.window = 1
    /\ series = <<1, 0, 5>>
    /\ out.res.value = <<Quot(1, 1), Quot(0, 1), Quot(5, 1)>>

RecommendationOps ==
    {"ShowInsights.generate_actionable_recommendations",
     "ShowLevelAnalysis.generate_actionable_recommendations"}

StatesOfRows == {FileRow(p).state : p \in FileRows}

CitiesOfRows == {FileRow(p).city : p \in FileRows}

\* `top` holds at most 10 of the keys `all`, each with the number of rows that
\* `rowsOf` gives it, and no key left out has more rows than a key included
IsTopTen(top, all, rowsOf) ==
    /\ DOMAIN top \subseteq all
    /\ Cardinality(DOMAIN top) <= 10
    /\ \A k \in DOMAIN top : top[k] = Cardinality(rowsOf[k])
    /\ \A k \in all \ DOMAIN top :
          \A i \in DOMAIN top : Cardinality(rowsOf[k]) <= top[i]

\* C23: the batch top_states and top_cities tables each hold at most 10 entries,
\* every entry's value is the exact number of records with that state (city), and
\* every state (city) left out has a count no greater than the smallest included.
C23_TopTenByCount ==
    (out.op = "main" /\ out.res.report_printed) =>
        \A r \in Range(out.res.analysis_results) :
            /\ IsTopTen(r.top_states, StatesOfRows,
                        [s \in StatesOfRows |-> {p \in FileRows : FileRow(p).state = s}])
            /\ IsTopTen(r.top_cities, CitiesOfRows,
                        [c \in CitiesOfRows |-> {p \in FileRows : FileRow(p).city = c}])

\* eleven states, the one seen last with two orders: it is in the table, a state
\* with one order is left out
C23_Witness ==
    /\ out.op = "main"
    /\ out.res.report_printed
    /\ Cardinality(StatesOfRows) = 11
    /\ \E r \in Range(out.res.analysis_results) :
          /\ Cardinality(DOMAIN r.top_states) = 10
          /\ "DC" \in DOMAIN r.top_states
          /\ r.top_states["DC"] = 2
          /\ StateNames[1] \in DOMAIN r.top_states
          /\ StateNames[10] \notin DOMAIN r.top_states

\* C24: JSON round trip: what the dashboard reads back from the snapshot the batch
\* run wrote holds, for every key of the results whose value is a scalar, the same
\* key with an equal value.
C24_JsonRoundTrip ==
    (out.op = "load_basic_analysis_results" /\ out.raised = "" /\ out.res.value # <<>>) =>
        \A k \in DOMAIN Scalars(out.res.value[1]) :
            /\ k \in DOMAIN out.res.scalars
            /\ out.res.scalars[k] = Scalars(out.res.value[1])[k]

\* a snapshot read back with a negative average of two decimal places, no customer
\* (the rates are the int 0) and a peak hour
C24_Witness ==
    /\ out.op = "load_basic_analysis_results"
    /\ out.raised = ""
    /\ out.res.value # <<>>
    /\ out.res.value[1].has_timing
    /\ out.res.value[1].json.avg_days_before_event = <<"-", "0", ".", "6", "7">>
    /\ out.res.scalars.avg_days_before_event = [type |-> "float", v |-> 0 - 67]
    /\ out.res.scalars.repeat_customer_rate = PyInt(0)
    /\ out.res.scalars.total_revenue.type = "float"
    /\ out.res.scalars.peak_hour.type = "int"

\* C25 as stated: within one process the dataset is loaded and the basic-analysis
\* results are obtained at most once: after the first render, whether its loads
\* succeeded or failed, every later render returns the same results without reading
\* the source files or the snapshot and without running the batch analysis, even
\* if files changed in between.
C25_LoadedAtMostOnce ==
    [][(dashboard_main /\ out.op = "dashboard.main") =>
          /\ out'.raised = out.raised
          /\ out'.res.analyzer = out.res.analyzer
          /\ out'.res.basic_analysis_results = out.res.basic_analysis_results
          /\ ~out'.res.read_source_files
          /\ ~out'.res.ran_batch
          /\ ~out'.res.read_snapshot]_vars

\* C25, amended: once a load has returned (a value or None), every later render
\* gets that result from the cache without reading the source files or the
\* snapshot and without running the batch analysis, even if files changed in
\* between; a load that raised is not cached and is run again by the next render.
C25_ReturnedLoadsAreMemoized ==
    [][dashboard_main =>
          /\ cache.load_show_analysis # <<>> =>
                /\ out'.res.analyzer = cache.load_show_analysis
                /\ ~out'.res.read_source_files
                /\ cache'.load_show_analysis = cache.load_show_analysis
          /\ cache.load_basic_analysis_results # <<>> =>
                /\ out'.res.basic_analysis_results = cache.load_basic_analysis_results
                /\ ~out'.res.ran_batch
                /\ ~out'.res.read_snapshot
                /\ snapshot' = snapshot
                /\ cache'.load_basic_analysis_results = cache.load_basic_analysis_results
          /\ cache.load_show_analysis = <<>> =>
                /\ out'.res.read_source_files
                /\ out'.res.analyzer = <<>> => cache'.load_show_analysis = <<>>]_vars

\* a render answered from the cache: the analyzer holds the one order loaded
\* first, the directory by now holds two, and nothing was read or run
C25_Witness ==
    /\ out.op = "dashboard.main"
    /\ out.raised = ""
    /\ ~out.res.read_source_files
    /\ ~out.res.ran_batch
    /\ out.res.analyzer # <<>>
    /\ Len(out.res.analyzer[1]) = 1
    /\ dir_exists
    /\ FridayCsv \in DOMAIN dir
    /\ Len(dir[FridayCsv]) = 2
    /\ out.res.basic_analysis_results = cache.load_basic_analysis_results
    /\ out.res.basic_analysis_results # <<>>

\* the (ISO year, ISO week) pairs of the order dates of the loaded table
OrderWeeks == {IsoCalendar(DayOf(df[i].order_date)) : i \in DOMAIN df}

\* C26: the weekly summary has one row per (ISO year, ISO week) of the order dates,
\* sorted ascending by week, and each row's Week_Start is the Monday of that ISO
\* week: every order aggregated into the row has an order date d with
\* Week_Start <= d < Week_Start + 7 days
C26_WeekStartIsIsoMonday ==
    out.op = "prepare_time_series_data" /\ out.raised = "" =>
        LET weekly_data == out.res.weekly_data
        IN  /\ Len(weekly_data) = Cardinality(OrderWeeks)
            /\ \A key \in OrderWeeks :
                  \E w \in DOMAIN weekly_data :
                     /\ weekly_data[w].Year = key.year
                     /\ weekly_data[w].Week = key.week
            /\ \A v, w \in DOMAIN weekly_data :
                  v < w => \/ weekly_data[v].Year < weekly_data[w].Year
                           \/ /\ weekly_data[v].Year = weekly_data[w].Year
                              /\ weekly_data[v].Week < weekly_data[w].Week
            /\ \A w \in DOMAIN weekly_data : \A i \in DOMAIN df :
                  (/\ IsoCalendar(DayOf(df[i].order_date)).year = weekly_data[w].Year
                   /\ IsoCalendar(DayOf(df[i].order_date)).week = weekly_data[w].Week)
                  => /\ DayOfWeek(weekly_data[w].Week_Start) = 0
                     /\ weekly_data[w].Week_Start <= DayOf(df[i].order_date)
                     /\ DayOf(df[i].order_date) < weekly_data[w].Week_Start + 7

\* the calls that compute a customer's lifetime
LifetimeOps ==
    {"ShowInsights.repeat_customer_case_studies",
     "ShowLevelAnalysis.identify_repeat_customer_case_studies",
     "show_customer_analysis", "create_customer_lifecycle_gantt"}

\* the rows with a lifetime in the result of the last call
LifetimeRowsOf(o) ==
    IF o.op = "create_customer_lifecycle_gantt"
    THEN [n \in DOMAIN o.res.top_customers |->
             [customer_id |-> o.res.top_customers[n].customer_id,
              first_order |-> o.res.top_customers[n].first_order,
              last_order |-> o.res.top_customers[n].last_order,
              lifetime |-> o.res.top_customers[n].lifetime_days]]
    ELSE \* first_order and last_order are dates: the timestamps of their midnights
         [n \in DOMAIN o.res.repeat_customers |->
             [customer_id |-> o.res.repeat_customers[n].customer_id,
              first_order |-> o.res.repeat_customers[n].first_order * 24,
              last_order |-> o.res.repeat_customers[n].last_order * 24,
              lifetime |-> o.res.repeat_customers[n].customer_lifetime_days]]

\* the order timestamps of a customer's records
OrderTimestamps(c) == {df[i].order_date : i \in {j \in DOMAIN df : df[j].customer_id = c}}

\* C27: for every customer of a customer summary, first_order and last_order are the
\* earliest and latest order timestamps of the customer's records and the lifetime is
\* the whole number of days between them, which is >= 0; so every path that computes
\* a lifetime gives the same value for the same record set
C27_LifetimeSpansOrderTimestamps ==
    out.op \in LifetimeOps /\ out.raised = "" =>
        \A n \in DOMAIN LifetimeRowsOf(out) :
           LET row == LifetimeRowsOf(out)[n]
               stamps == OrderTimestamps(row.customer_id)
           IN  /\ row.first_order = Min(stamps)
               /\ row.last_order = Max(stamps)
               /\ row.lifetime = (Max(stamps) - Min(stamps)) \div 24
               /\ row.lifetime >= 0

\* the number of records of the loaded table that carry the customer_id c
Occurrences(c) == Cardinality({j \in DOMAIN df : df[j].customer_id = c})

\* C28: ShowLevelAnalysis.controllable_variables_analysis labels a record 'New'
\* exactly when its customer_id occurs in exactly one record and 'Returning' exactly
\* when it occurs in more than one; no record whose customer has fewer than two
\* orders, a record with a missing customer_id included, is labelled 'Returning';
\* the New and Returning order counts sum to the record count
C28_NewMeansSingleOrder ==
    out.op = "ShowLevelAnalysis.controllable_variables_analysis" /\ out.raised = "" =>
        /\ \A i \in DOMAIN df :
              /\ df[i].customer_type \in {"New", "Returning"}
              /\ df[i].customer_id # NaN =>
                    /\ df[i].customer_type = "New" <=> Occurrences(df[i].customer_id) = 1
                    /\ df[i].customer_type = "Returning" <=> Occurrences(df[i].customer_id) > 1
              /\ df[i].customer_id = NaN => df[i].customer_type # "Returning"
        /\ SumOver(out.res.acquisition_analysis, DOMAIN out.res.acquisition_analysis, "orders")
              = Len(df)

\* the sum of the counts of a counter over the given keys
RECURSIVE SumCounts(_, _)
SumCounts(counter, keys) ==
    IF keys = {} THEN 0
    ELSE LET k == CHOOSE x \in keys : TRUE
         IN  counter[k] + SumCounts(counter, keys \ {k})

\* C29: in every result of the batch analyze_data, same_day_purchases <=
\* last_minute_purchases; last_minute_purchases + advance_purchases <= the number of
\* records with parseable dates <= total_orders; the hourly_distribution counts sum to
\* the number of records with parseable dates; the orders_by_day counts sum to
\* total_orders; and 0 <= repeat_customer_rate <= 100.  (The three purchase counts
\* exist in a result only when some record's dates parse.)
C29_BatchCountsConsistent ==
    (out.op = "main" /\ out.res.report_printed) =>
        \A r \in Range(out.res.analysis_results) :
            /\ r.has_timing =>
                  /\ r.same_day_purchases <= r.last_minute_purchases
                  /\ r.last_minute_purchases + r.advance_purchases <= Cardinality(TimedRows)
            /\ Cardinality(TimedRows) <= r.total_orders
            /\ SumCounts(r.hourly_distribution, DOMAIN r.hourly_distribution)
                  = Cardinality(TimedRows)
            /\ SumCounts(r.orders_by_day, DOMAIN r.orders_by_day) = r.total_orders
            /\ r.repeat_customer_rate.den > 0
            /\ 0 <= r.repeat_customer_rate.num
            /\ r.repeat_customer_rate.num <= 100 * r.repeat_customer_rate.den

\* a report over three orders: two of one buyer, placed on the event's day and seven
\* days before it, and one of another buyer whose order date does not parse
C29_Witness ==
    /\ out.op = "main"
    /\ out.res.report_printed
    /\ \E r \in Range(out.res.analysis_results) :
          /\ r.total_orders = 3
          /\ r.has_timing
          /\ r.same_day_purchases = 1
          /\ r.last_minute_purchases = 1
          /\ r.advance_purchases = 1
          /\ Cardinality(TimedRows) = 2
          /\ SumCounts(r.hourly_distribution, DOMAIN r.hourly_distribution) = 2
          /\ r.repeat_customer_rate = Quot(100, 2)

\* C30: if the batch analysis cannot supply results to the interactive layer (the
\* subprocess exits non-zero, or exits zero without having written a snapshot
\* because no data was found), load_basic_analysis_results returns None after
\* reporting the error instead of raising, and selecting the 'Geographic Analysis'
\* section afterwards does not raise
C30_NoResultsIsReportedNotRaised ==
    (/\ out.op = "dashboard.main: Geographic Analysis"
     /\ out.res.analyzer # <<>>
     /\ out.res.batch # <<>>
     /\ \/ out.res.batch[1].exit_code # 0
        \/ ~out.res.batch[1].snapshot_written)
    => /\ out.res.basic_analysis_results = << <<>> >>
       /\ out.raised = ""

====
